---- MODULE Spec2Model ----
(***************************************************************************)
(* Model of .github/scripts/highlight-html-changes.py (class HTMLDiffer).  *)
(*                                                                         *)
(* A Python str is a sequence of one-character strings.  Indices written   *)
(* lo, hi, i, j, k in the difflib part are Python's (0-based, half-open);  *)
(* everywhere else positions are 1-based positions of the sequence.        *)
(***************************************************************************)
EXTENDS Integers, Sequences, FiniteSets, TLC

Min(S) == CHOOSE x \in S : \A y \in S : x <= y
Max(S) == CHOOSE x \in S : \A y \in S : x >= y

\* Python s[lo:hi] for 0 <= lo <= hi <= len(s)
Slice(s, lo, hi) == SubSeq(s, lo + 1, hi)

RECURSIVE Flatten(_)
\* ''.join(list)
Flatten(ss) == IF ss = <<>> THEN <<>> ELSE Head(ss) \o Flatten(Tail(ss))

\* pat occurs in s at position i
MatchAt(s, i, pat) ==
    /\ i >= 1
    /\ i + Len(pat) - 1 <= Len(s)
    /\ SubSeq(s, i, i + Len(pat) - 1) = pat

\* first position >= from where pat occurs in s, 0 when there is none
Find(s, pat, from) ==
    LET C == {i \in from..(Len(s) - Len(pat) + 1) : MatchAt(s, i, pat)}
    IN IF C = {} THEN 0 ELSE Min(C)

\* first position >= from holding character c, 0 when there is none
FindChar(s, c, from) ==
    LET C == {i \in from..Len(s) : s[i] = c}
    IN IF C = {} THEN 0 ELSE Min(C)

\* what \s matches and str.strip() removes (over the model's alphabet)
Whitespace == {" ", "\t", "\n", "\r", "\f"}

\* str.strip()
Strip(s) ==
    LET C == {i \in 1..Len(s) : s[i] \notin Whitespace}
    IN IF C = {} THEN <<>> ELSE SubSeq(s, Min(C), Max(C))

(***************************************************************************)
(* The marker strings of lines 156, 158, 287.                              *)
(***************************************************************************)
MARK_TEXT_CHANGED == <<"<", "m", "a", "r", "k", " ", "c", "l", "a", "s", "s", "=", "\"", "p", "r", "e", "v", "i", "e", "w", "-", "t", "e", "x", "t", "-", "c", "h", "a", "n", "g", "e", "d", "\"", ">">>
MARK_TEXT_ADDED == <<"<", "m", "a", "r", "k", " ", "c", "l", "a", "s", "s", "=", "\"", "p", "r", "e", "v", "i", "e", "w", "-", "t", "e", "x", "t", "-", "a", "d", "d", "e", "d", "\"", ">">>
\* the marker of line 287 with the class mistyped
MARK_ELEMENT_NEW == <<"<", "m", "a", "r", "k", " ", "c", "l", "a", "s", "s", "=", "\"", "p", "r", "e", "v", "i", "e", "w", "-", "e", "l", "e", "m", "e", "n", "t", "-", "n", "e", "w", "\"", ">">>
MARK_ELEMENT_ADDED == <<"<", "m", "a", "r", "k", " ", "c", "l", "a", "s", "s", "=", "\"", "p", "r", "e", "v", "i", "e", "w", "-", "e", "l", "e", "m", "e", "n", "t", "-", "a", "d", "d", "e", "d", "\"", ">">>
MARK_CLOSE == <<"<", "/", "m", "a", "r", "k", ">">>

(***************************************************************************)
(* The regular expression <[^>]+> (lines 100, 199, 260): a match starting  *)
(* at position i ends at the first ">" at or after i+2, and needs the      *)
(* character after "<" not to be ">".  0 when there is no match at i.      *)
(***************************************************************************)
TagEnd(s, i) ==
    IF i + 2 <= Len(s) /\ s[i] = "<" /\ s[i + 1] # ">"
    THEN FindChar(s, ">", i + 2)
    ELSE 0

RECURSIVE StripTags(_, _)
\* re.sub(r'<[^>]+>', '', s), scanning from position i
StripTags(s, i) ==
    LET T == {j \in i..Len(s) : TagEnd(s, j) > 0}
    IN IF T = {} THEN SubSeq(s, i, Len(s))
       ELSE SubSeq(s, i, Min(T) - 1) \o StripTags(s, TagEnd(s, Min(T)) + 1)

(***************************************************************************)
(* html.unescape, for the named character references the model's alphabet  *)
(* can spell (there is no "#", so no numeric reference).  A reference is   *)
(* "&", then 1..32 characters none of which is \t \n \f space < & # ;,     *)
(* then an optional ";".  The name is looked up whole, then by its longest *)
(* prefix of at least two characters (the references HTML5 accepts without *)
(* the semicolon); an unknown name is left as it is.                       *)
(***************************************************************************)
html5 ==
    {<< <<"a", "m", "p", ";">>, <<"&">> >>, << <<"a", "m", "p">>, <<"&">> >>,
     << <<"l", "t", ";">>, <<"<">> >>,      << <<"l", "t">>, <<"<">> >>,
     << <<"g", "t", ";">>, <<">">> >>,      << <<"g", "t">>, <<">">> >>}

html5_names == {e[1] : e \in html5}
html5_value(n) == (CHOOSE e \in html5 : e[1] = n)[2]

CharrefStop == {"\t", "\n", "\f", " ", "<", "&", "#", ";"}
MaxCharrefName == 32

\* the end of the reference that starts with the "&" at position i, 0 if none
CharrefEnd(s, i) ==
    LET lim == Min({Len(s), i + MaxCharrefName})
        bad == {j \in (i + 1)..lim : s[j] \in CharrefStop}
        last == IF bad = {} THEN lim ELSE Min(bad) - 1
    IN IF last <= i THEN 0
       ELSE IF last + 1 <= Len(s) /\ s[last + 1] = ";" THEN last + 1 ELSE last

replace_charref(n) ==
    IF n \in html5_names THEN html5_value(n)
    ELSE LET P == {x \in 2..(Len(n) - 1) : SubSeq(n, 1, x) \in html5_names}
         IN IF P = {} THEN <<"&">> \o n
            ELSE html5_value(SubSeq(n, 1, Max(P))) \o SubSeq(n, Max(P) + 1, Len(n))

RECURSIVE UnescapeFrom(_, _)
\* the references of s from position i on replaced, the rest as it is
UnescapeFrom(s, i) ==
    LET R == {j \in i..Len(s) : s[j] = "&" /\ CharrefEnd(s, j) > 0}
    IN IF R = {} THEN SubSeq(s, i, Len(s))
       ELSE SubSeq(s, i, Min(R) - 1)
            \o replace_charref(SubSeq(s, Min(R) + 1, CharrefEnd(s, Min(R))))
            \o UnescapeFrom(s, CharrefEnd(s, Min(R)) + 1)

unescape(s) == UnescapeFrom(s, 1)

\* lines 196-200
extract_text_from_element(element_html) ==
    Strip(unescape(StripTags(element_html, 1)))

(***************************************************************************)
(* difflib.SequenceMatcher(None, a, b) with no junk; both strings are far  *)
(* shorter than the 200 elements at which autojunk starts.                 *)
(***************************************************************************)
RECURSIVE RunLen(_, _, _, _, _, _)
\* the length of the common run of a[i:ahi] and b[j:bhi]
RunLen(a, i, ahi, b, j, bhi) ==
    IF i < ahi /\ j < bhi /\ a[i + 1] = b[j + 1]
    THEN 1 + RunLen(a, i + 1, ahi, b, j + 1, bhi)
    ELSE 0

\* the longest matching block in a[alo:ahi], b[blo:bhi]: of the longest, the
\* one starting earliest in a, and of those the one starting earliest in b
find_longest_match(a, alo, ahi, b, blo, bhi) ==
    LET C == {c \in (alo..(ahi - 1)) \X (blo..(bhi - 1)) : a[c[1] + 1] = b[c[2] + 1]}
    IN IF C = {} THEN <<alo, blo, 0>>
       ELSE LET L == [c \in C |-> RunLen(a, c[1], ahi, b, c[2], bhi)]
                k == Max({L[c] : c \in C})
                i == Min({c[1] : c \in {d \in C : L[d] = k}})
                j == Min({c[2] : c \in {d \in C : L[d] = k /\ d[1] = i}})
            IN <<i, j, k>>

RECURSIVE matching_blocks(_, _, _, _, _, _)
\* get_matching_blocks without its closing (la, lb, 0) block: the longest
\* match, then the same left of it and right of it; in ascending order.  No
\* two blocks are adjacent (the longer block would have been found), so
\* the merge of adjacent blocks changes nothing.
matching_blocks(a, alo, ahi, b, blo, bhi) ==
    LET m == find_longest_match(a, alo, ahi, b, blo, bhi)
        i == m[1]
        j == m[2]
        k == m[3]
    IN IF k = 0 THEN <<>>
       ELSE (IF alo < i /\ blo < j
             THEN matching_blocks(a, alo, i, b, blo, j) ELSE <<>>)
            \o <<m>>
            \o (IF i + k < ahi /\ j + k < bhi
                THEN matching_blocks(a, i + k, ahi, b, j + k, bhi) ELSE <<>>)

RECURSIVE SumSizes(_)
SumSizes(blocks) ==
    IF blocks = <<>> THEN 0 ELSE Head(blocks)[3] + SumSizes(Tail(blocks))

\* SequenceMatcher(None, a, b).ratio() as the fraction <<numerator,
\* denominator>>: 2.0 * matches / (len(a) + len(b)), and 1.0 for two empty
\* sequences.  Floats of such small fractions compare as the fractions do.
\* ratio without the factor 2 of 2.0 * matches / length
ratio_unscaled(a, b) ==
    IF Len(a) + Len(b) = 0 THEN <<1, 1>>
    ELSE <<SumSizes(matching_blocks(a, 0, Len(a), b, 0, Len(b))),
           Len(a) + Len(b)>>

ratio(a, b) ==
    IF Len(a) + Len(b) = 0 THEN <<1, 1>>
    ELSE <<2 * SumSizes(matching_blocks(a, 0, Len(a), b, 0, Len(b))),
           Len(a) + Len(b)>>

RatLess(r, q) == r[1] * q[2] < q[1] * r[2]
RatEq(r, q) == r[1] * q[2] = q[1] * r[2]

RECURSIVE OpcodesFrom(_, _, _, _, _)
\* get_opcodes: walk the blocks (with the closing block <<la, lb, 0>>)
\* from (i, j); an opcode is <<tag, i1, i2, j1, j2>>
OpcodesFrom(blocks, i, j, la, lb) ==
    LET blk == IF blocks = <<>> THEN <<la, lb, 0>> ELSE Head(blocks)
        ai == blk[1]
        bj == blk[2]
        size == blk[3]
        tag == IF i < ai /\ j < bj THEN "replace"
               ELSE IF i < ai THEN "delete"
               ELSE IF j < bj THEN "insert"
               ELSE ""
        gap == IF tag # "" THEN << <<tag, i, ai, j, bj>> >> ELSE <<>>
        eq == IF size > 0
              THEN << <<"equal", ai, ai + size, bj, bj + size>> >> ELSE <<>>
    IN IF blocks = <<>> THEN gap
       ELSE gap \o eq \o OpcodesFrom(Tail(blocks), ai + size, bj + size, la, lb)

get_opcodes(a, b) ==
    OpcodesFrom(matching_blocks(a, 0, Len(a), b, 0, Len(b)), 0, 0, Len(a), Len(b))


(***************************************************************************)
(* highlight_html_diff and apply_highlights_to_text, lines 65-166.         *)
(***************************************************************************)
RECURSIVE Words(_)
\* re.findall(r'\S+|\s+', t): the maximal runs of non-whitespace and of
\* whitespace, in order
Words(t) ==
    IF t = <<>> THEN <<>>
    ELSE LET ws == t[1] \in Whitespace
             C == {i \in 1..Len(t) : (t[i] \in Whitespace) # ws}
             n == IF C = {} THEN Len(t) ELSE Min(C) - 1
         IN <<SubSeq(t, 1, n)>> \o Words(SubSeq(t, n + 1, Len(t)))

RECURSIVE RangesOf(_, _)
\* lines 83-89: one <<start_pos, end_pos, tag>> per replace or insert opcode
RangesOf(opcodes, new_words) ==
    IF opcodes = <<>> THEN <<>>
    ELSE LET op == Head(opcodes)
         IN (IF op[1] \in {"replace", "insert"}
             THEN << <<Len(Flatten(Slice(new_words, 0, op[4]))),
                       Len(Flatten(Slice(new_words, 0, op[5]))),
                       op[1]>> >>
             ELSE <<>>)
            \o RangesOf(Tail(opcodes), new_words)

changed_ranges_of(old_text, new_text) ==
    RangesOf(get_opcodes(Words(old_text), Words(new_text)), Words(new_text))

RECURSIVE html_tokens(_, _)
\* re.findall(r'(<[^>]+>|[^<]+)', s) from position i: a tag, or a run of
\* characters other than "<"; a "<" that starts no tag is in no token
html_tokens(s, i) ==
    IF i > Len(s) THEN <<>>
    ELSE IF TagEnd(s, i) > 0
         THEN <<SubSeq(s, i, TagEnd(s, i))>> \o html_tokens(s, TagEnd(s, i) + 1)
         ELSE IF s[i] # "<"
              THEN LET nxt == FindChar(s, "<", i)
                       e == IF nxt = 0 THEN Len(s) ELSE nxt - 1
                   IN <<SubSeq(s, i, e)>> \o html_tokens(s, e + 1)
              ELSE html_tokens(s, i + 1)

RECURSIVE Overlapping(_, _, _)
\* lines 131-136
Overlapping(ranges, text_start_pos, len) ==
    IF ranges = <<>> THEN <<>>
    ELSE LET r == Head(ranges)
         IN (IF r[1] < text_start_pos + len /\ r[2] > text_start_pos
             THEN << <<Max({0, r[1] - text_start_pos}),
                       Min({len, r[2] - text_start_pos}),
                       r[3]>> >>
             ELSE <<>>)
            \o Overlapping(Tail(ranges), text_start_pos, len)

\* the order of Python tuples (start, end, change_type)
TupleLess(x, y) ==
    \/ x[1] < y[1]
    \/ x[1] = y[1] /\ x[2] < y[2]
    \/ x[1] = y[1] /\ x[2] = y[2] /\ x[3] = "insert" /\ y[3] = "replace"

RECURSIVE SortTuples(_)
\* line 142: list.sort()
SortTuples(l) ==
    IF l = <<>> THEN <<>>
    ELSE LET m == CHOOSE i \in 1..Len(l) :
                      /\ \A j \in 1..Len(l) : ~TupleLess(l[j], l[i])
                      /\ \A j \in 1..(i - 1) : TupleLess(l[i], l[j])
         IN <<l[m]>> \o SortTuples(SubSeq(l, 1, m - 1) \o SubSeq(l, m + 1, Len(l)))

RECURSIVE BuildHighlights(_, _, _)
\* lines 148-164
BuildHighlights(text, overlapping, last_end) ==
    IF overlapping = <<>>
    THEN (IF last_end < Len(text) THEN Slice(text, last_end, Len(text)) ELSE <<>>)
    ELSE LET o == Head(overlapping)
             before == IF o[1] > last_end THEN Slice(text, last_end, o[1]) ELSE <<>>
             highlighted_text == Slice(text, o[1], o[2])
             mark == IF o[3] = "replace"
                     THEN MARK_TEXT_CHANGED \o highlighted_text \o MARK_CLOSE
                     ELSE IF o[3] = "insert"
                     THEN MARK_TEXT_ADDED \o highlighted_text \o MARK_CLOSE
                     ELSE <<>>
         IN before \o mark \o BuildHighlights(text, Tail(overlapping), o[2])

\* lines 122-166
apply_highlights_to_text(text, text_start_pos, changed_ranges) ==
    IF Strip(text) = <<>> THEN text
    ELSE LET overlapping == Overlapping(changed_ranges, text_start_pos, Len(text))
         IN IF overlapping = <<>> THEN text
            ELSE BuildHighlights(text, SortTuples(overlapping), 0)

RECURSIVE HighlightTokens(_, _, _)
\* lines 102-120: tags as they are, text tokens highlighted at the running
\* offset text_pos
HighlightTokens(tokens, text_pos, changed_ranges) ==
    IF tokens = <<>> THEN <<>>
    ELSE LET token == Head(tokens)
         IN IF token[1] = "<"
            THEN token \o HighlightTokens(Tail(tokens), text_pos, changed_ranges)
            ELSE apply_highlights_to_text(token, text_pos, changed_ranges)
                 \o HighlightTokens(Tail(tokens), text_pos + Len(token), changed_ranges)

DIV_OPEN == <<"<", "d", "i", "v", ">">>
DIV_CLOSE == <<"<", "/", "d", "i", "v", ">">>

\* lines 65-120
highlight_html_diff(old_html, new_html) ==
    LET old_text == extract_text_from_element(DIV_OPEN \o old_html \o DIV_CLOSE)
        new_text == extract_text_from_element(DIV_OPEN \o new_html \o DIV_CLOSE)
    IN IF old_text = <<>> \/ new_text = <<>> THEN new_html
       ELSE LET changed_ranges == changed_ranges_of(old_text, new_text)
            IN IF changed_ranges = <<>> THEN new_html
               ELSE HighlightTokens(html_tokens(new_html, 1), 0, changed_ranges)


(***************************************************************************)
(* extract_main_content, lines 43-55.                                      *)
(***************************************************************************)
MAIN_OPEN == <<"<", "m", "a", "i", "n">>
MAIN_CLOSE == <<"<", "/", "m", "a", "i", "n", ">">>
DIV_START == <<"<", "d", "i", "v">>
CLASS_EQ == <<"c", "l", "a", "s", "s", "=", "\"">>
CONTENT == <<"c", "o", "n", "t", "e", "n", "t">>

\* <main[^>]*>(.*?)</main> matched at position i: <<g, k>>, the positions
\* of the ">" ending the start tag and of the end tag; <<>> when no match
MainAt(s, i) ==
    IF ~MatchAt(s, i, MAIN_OPEN) THEN <<>>
    ELSE LET g == FindChar(s, ">", i + Len(MAIN_OPEN))
             k == IF g = 0 THEN 0 ELSE Find(s, MAIN_CLOSE, g + 1)
         IN IF k = 0 THEN <<>> ELSE <<g, k>>

\* <div[^>]*class="[^"]*content[^"]*"[^>]*>(.*?)</div> matched at position
\* i: the greedy [^>]* takes the last class=" of the tag for which the rest
\* matches
DivAt(s, i) ==
    IF ~MatchAt(s, i, DIV_START) THEN <<>>
    ELSE LET tagEnd == FindChar(s, ">", i + Len(DIV_START))
             lim == IF tagEnd = 0 THEN Len(s) ELSE tagEnd - 1
             Q(c) == FindChar(s, "\"", c + Len(CLASS_EQ))
             G(c) == FindChar(s, ">", Q(c) + 1)
             K(c) == Find(s, DIV_CLOSE, G(c) + 1)
             C == {c \in (i + Len(DIV_START))..lim :
                      /\ MatchAt(s, c, CLASS_EQ)
                      /\ Q(c) > 0
                      /\ Find(SubSeq(s, c + Len(CLASS_EQ), Q(c) - 1), CONTENT, 1) > 0
                      /\ G(c) > 0
                      /\ K(c) > 0}
         IN IF C = {} THEN <<>> ELSE <<G(Max(C)), K(Max(C))>>

\* <<first, last>> positions in html of what extract_main_content returns
main_content_span(html) ==
    LET M == {i \in 1..Len(html) : MainAt(html, i) # <<>>}
        D == {i \in 1..Len(html) : DivAt(html, i) # <<>>}
    IN IF M # {}
       THEN <<MainAt(html, Min(M))[1] + 1, MainAt(html, Min(M))[2] - 1>>
       ELSE IF D # {}
       THEN <<DivAt(html, Min(D))[1] + 1, DivAt(html, Min(D))[2] - 1>>
       ELSE <<1, Len(html)>>

extract_main_content(html) ==
    SubSeq(html, main_content_span(html)[1], main_content_span(html)[2])

(***************************************************************************)
(* The element pattern of lines 216-217,                                   *)
(*   (<(?:p|h[1-6]|li|blockquote)[^>]*>.*?</(?:p|h[1-6]|li|blockquote)>)   *)
(* and re.findall with re.DOTALL, lines 219-220.                           *)
(***************************************************************************)
BLOCKQUOTE == <<"b", "l", "o", "c", "k", "q", "u", "o", "t", "e">>

\* the length of what (?:p|h[1-6]|li|blockquote) matches at position i, 0
\* when it does not match (no two alternatives can match at one position)
ComparableNameLen(s, i) ==
    IF MatchAt(s, i, <<"p">>) THEN Len(<<"p">>)
    ELSE IF i + 1 <= Len(s) /\ s[i] = "h" /\ s[i + 1] \in {"1", "2", "3", "4", "5", "6"}
    THEN Len(<<"h", "1">>)
    ELSE IF MatchAt(s, i, <<"l", "i">>) THEN Len(<<"l", "i">>)
    ELSE IF MatchAt(s, i, BLOCKQUOTE) THEN Len(BLOCKQUOTE)
    ELSE 0

\* the end tag </(?:...)> at position k: the position of its ">", else 0
ComparableCloseEnd(s, k) ==
    IF MatchAt(s, k, <<"<", "/">>) /\ ComparableNameLen(s, k + 2) > 0
       /\ k + 2 + ComparableNameLen(s, k + 2) <= Len(s)
       /\ s[k + 2 + ComparableNameLen(s, k + 2)] = ">"
    THEN k + 2 + ComparableNameLen(s, k + 2)
    ELSE 0

\* the last position of the element matched at position i, 0 when none:
\* the start tag runs to the first ">", the lazy .*? to the first end tag
\* of any comparable element
ElementEnd(s, i) ==
    IF i <= Len(s) /\ s[i] = "<" /\ ComparableNameLen(s, i + 1) > 0
    THEN LET g == FindChar(s, ">", i + 1 + ComparableNameLen(s, i + 1))
             K == IF g = 0 THEN {}
                  ELSE {k \in (g + 1)..Len(s) : ComparableCloseEnd(s, k) > 0}
         IN IF K = {} THEN 0 ELSE ComparableCloseEnd(s, Min(K))
    ELSE 0

RECURSIVE ElementSpans(_, _)
\* the matches of re.findall from position i, as <<first, last>> positions
ElementSpans(s, i) ==
    LET E == {j \in i..Len(s) : ElementEnd(s, j) > 0}
    IN IF E = {} THEN <<>>
       ELSE << <<Min(E), ElementEnd(s, Min(E))>> >>
            \o ElementSpans(s, ElementEnd(s, Min(E)) + 1)

find_elements(content) ==
    LET spans == ElementSpans(content, 1)
    IN [n \in 1..Len(spans) |-> SubSeq(content, spans[n][1], spans[n][2])]

\* re.match(r'(<[^>]+>)(.*)(</[^>]+>)', elem, re.DOTALL), lines 260, 265,
\* 282: <<open_tag, inner_content, close_tag>>, or <<>> for None.  The
\* greedy .* ends at the last "</" that a tag can start at.
tag_match(elem) ==
    LET g == TagEnd(elem, 1)
        K == IF g = 0 THEN {}
             ELSE {k \in (g + 1)..Len(elem) :
                      /\ MatchAt(elem, k, <<"<", "/">>)
                      /\ k + 2 <= Len(elem)
                      /\ elem[k + 2] # ">"
                      /\ FindChar(elem, ">", k + 3) > 0}
    IN IF K = {} THEN <<>>
       ELSE <<SubSeq(elem, 1, g),
              SubSeq(elem, g + 1, Max(K) - 1),
              SubSeq(elem, Max(K), FindChar(elem, ">", Max(K) + 3))>>


(***************************************************************************)
(* re.sub(re.escape(new_elem), highlighted_elem, html, count=1), lines 277 *)
(* and 291.  The pattern is new_elem taken literally and has no group; the *)
(* replacement is a template, which re parses before it searches.          *)
(***************************************************************************)
ASCII_LETTERS ==
    {"a", "b", "c", "d", "e", "f", "g", "h", "i", "j", "k", "l", "m",
     "n", "o", "p", "q", "r", "s", "t", "u", "v", "w", "x", "y", "z",
     "A", "B", "C", "D", "E", "F", "G", "H", "I", "J", "K", "L", "M",
     "N", "O", "P", "Q", "R", "S", "T", "U", "V", "W", "X", "Y", "Z"}
DIGITS == {"0", "1", "2", "3", "4", "5", "6", "7", "8", "9"}
OCTDIGITS == {"0", "1", "2", "3", "4", "5", "6", "7"}

\* the escapes a template knows, with the character each stands for; a
\* character outside the model's alphabet is written as a named atom
ESCAPES ==
    {<<"a", "BEL">>, <<"b", "BS">>, <<"f", "\f">>, <<"n", "\n">>,
     <<"r", "\r">>, <<"t", "\t">>, <<"v", "VT">>, <<"\\", "\\">>}
escape_value(c) == (CHOOSE e \in ESCAPES : e[1] = c)[2]

CharAt(t, i) == IF i <= Len(t) THEN t[i] ELSE ""

RECURSIVE expand_template(_, _, _)
\* the template t from position i on, expanded for a match of `whole`:
\* [err |-> re.error is raised, out |-> the expansion]
expand_template(t, i, whole) ==
    LET b == FindChar(t, "\\", i)
        c == CharAt(t, b + 1)
        ERR == [err |-> TRUE, out |-> <<>>]
        Then(piece, next) ==
            LET rest == expand_template(t, next, whole)
            IN IF rest.err THEN ERR
               ELSE [err |-> FALSE, out |-> SubSeq(t, i, b - 1) \o piece \o rest.out]
    IN IF b = 0 THEN [err |-> FALSE, out |-> SubSeq(t, i, Len(t))]
       ELSE IF b = Len(t) THEN ERR                  \* bad escape (end of pattern)
       ELSE IF c = "g"
       THEN \* \g<name>: only group 0, the whole match, exists
            LET e == FindChar(t, ">", b + 3)
                name == SubSeq(t, b + 3, e - 1)
            IN IF CharAt(t, b + 2) = "<" /\ e > 0 /\ name # <<>>
                  /\ \A n \in 1..Len(name) : name[n] = "0"
               THEN Then(whole, e + 1)
               ELSE ERR
       ELSE IF c = "0"
       THEN \* \0, \0o, \0oo: an octal escape
            LET n == IF CharAt(t, b + 2) \in OCTDIGITS
                     THEN (IF CharAt(t, b + 3) \in OCTDIGITS THEN 2 ELSE 1)
                     ELSE 0
            IN Then(<<"CHR">>, b + 2 + n)
       ELSE IF c \in DIGITS
       THEN \* \ooo is an octal escape up to 0o377, anything else a
            \* reference to a group that does not exist
            IF c \in {"1", "2", "3"} /\ CharAt(t, b + 2) \in OCTDIGITS
               /\ CharAt(t, b + 3) \in OCTDIGITS
            THEN Then(<<"CHR">>, b + 4)
            ELSE ERR
       ELSE IF c \in {e[1] : e \in ESCAPES} THEN Then(<<escape_value(c)>>, b + 2)
       ELSE IF c \in ASCII_LETTERS THEN ERR          \* bad escape \c
       ELSE Then(<<"\\", c>>, b + 2)

\* [err |-> re.error is raised, out |-> html with the first occurrence of
\* new_elem replaced]
re_sub(new_elem, highlighted_elem, html) ==
    LET repl == expand_template(highlighted_elem, 1, new_elem)
        at == Find(html, new_elem, 1)
    IN IF repl.err THEN [err |-> TRUE, out |-> html]
       ELSE IF at = 0 THEN [err |-> FALSE, out |-> html]
       ELSE [err |-> FALSE,
             out |-> SubSeq(html, 1, at - 1) \o repl.out
                     \o SubSeq(html, at + Len(new_elem), Len(html))]


(***************************************************************************)
(* highlight_changed_elements, lines 202-294.                              *)
(***************************************************************************)
\* Python's None, which is no document
None == <<"None">>

\* `not html` taken as `html is None`
FalsyNoneOnly(html) == html = None

\* `not html`
Falsy(html) == html = None \/ html = <<>>

\* lines 208-209, as fractions
SIMILARITY_THRESHOLD_MIN == <<1, 2>>
SIMILARITY_THRESHOLD_MAX == <<99, 100>>

\* lines 223-227 without the test of line 226: every old element is stored
old_elem_list_all(old_elements) ==
    [n \in 1..Len(old_elements) |->
        <<extract_text_from_element(old_elements[n]), old_elements[n]>>]

RECURSIVE old_elem_list_of(_)
\* lines 223-227: <<text, elem>> of the old elements with a non-empty text
old_elem_list_of(old_elements) ==
    IF old_elements = <<>> THEN <<>>
    ELSE LET text == extract_text_from_element(Head(old_elements))
         IN (IF text # <<>> THEN << <<text, Head(old_elements)>> >> ELSE <<>>)
            \o old_elem_list_of(Tail(old_elements))

\* lines 246-247 without the test: a matched old element is offered again
AlreadyMatchedNever(idx, used) == FALSE

\* lines 246-247: the old element at idx was matched before
AlreadyMatched(idx, used) == idx \in used

\* line 250 with >= for >
BetterOrEqual(r, best_ratio) == ~RatLess(r, best_ratio)

\* line 250
Better(r, best_ratio) == RatLess(best_ratio, r)

RECURSIVE best_match_from(_, _, _, _, _)
\* lines 245-252, from old element idx on; best is <<best_match_idx,
\* best_ratio>>, and best_match_idx 0 is Python's None.  An index of
\* old_elem_list is its position, from 1.
best_match_from(old_list, used, new_text, idx, best) ==
    IF idx > Len(old_list) THEN best
    ELSE IF AlreadyMatched(idx, used)
    THEN best_match_from(old_list, used, new_text, idx + 1, best)
    ELSE LET r == ratio(old_list[idx][1], new_text)
         IN IF Better(r, best[2])
            THEN best_match_from(old_list, used, new_text, idx + 1, <<idx, r>>)
            ELSE best_match_from(old_list, used, new_text, idx + 1, best)

\* lines 242-252
best_match(old_list, used, new_text) ==
    best_match_from(old_list, used, new_text, 1, <<0, <<0, 1>> >>)

\* line 255 without its upper threshold
IsModifiedNoMax(best) ==
    /\ best[1] # 0
    /\ RatLess(SIMILARITY_THRESHOLD_MIN, best[2])

\* line 255
IsModified(best) ==
    /\ best[1] # 0
    /\ RatLess(SIMILARITY_THRESHOLD_MIN, best[2])
    /\ RatLess(best[2], SIMILARITY_THRESHOLD_MAX)

\* line 280
IsAdded(best, new_text) ==
    /\ best[1] = 0 \/ RatLess(best[2], SIMILARITY_THRESHOLD_MIN)
    /\ new_text # <<>>

\* lines 260-272: the new element with its inner content highlighted
\* against the old element's; <<>> when tag_match is None
modified_elem(old_elem, new_elem) ==
    LET tm == tag_match(new_elem)
        old_tm == tag_match(old_elem)
        old_inner_content == IF old_tm # <<>> THEN old_tm[2] ELSE <<>>
    IN IF tm = <<>> THEN <<>>
       ELSE tm[1] \o highlight_html_diff(old_inner_content, tm[2]) \o tm[3]

\* lines 282-287
added_elem(new_elem) ==
    LET tm == tag_match(new_elem)
    IN IF tm = <<>> THEN <<>>
       ELSE tm[1] \o MARK_ELEMENT_ADDED \o tm[2] \o MARK_CLOSE \o tm[3]

(***************************************************************************)
(* normalize_html, lines 57-63.                                            *)
(***************************************************************************)
RECURSIVE CollapseWhitespace(_, _)
\* re.sub(r'\s+', ' ', s), scanning from position i
CollapseWhitespace(s, i) ==
    LET W == {j \in i..Len(s) : s[j] \in Whitespace}
    IN IF W = {} THEN SubSeq(s, i, Len(s))
       ELSE LET m == Min(W)
                N == {j \in m..Len(s) : s[j] \notin Whitespace}
                e == IF N = {} THEN Len(s) + 1 ELSE Min(N)
            IN SubSeq(s, i, m - 1) \o <<" ">> \o CollapseWhitespace(s, e)

COMMENT_OPEN == <<"<", "!", "-", "-">>
COMMENT_CLOSE == <<"-", "-", ">">>

RECURSIVE RemoveComments(_, _)
\* re.sub(r'<!--.*?-->', '', s, flags=re.DOTALL), scanning from position i
RemoveComments(s, i) ==
    LET o == Find(s, COMMENT_OPEN, i)
        c == IF o = 0 THEN 0 ELSE Find(s, COMMENT_CLOSE, o + Len(COMMENT_OPEN))
    IN IF c = 0 THEN SubSeq(s, i, Len(s))
       ELSE SubSeq(s, i, o - 1) \o RemoveComments(s, c + Len(COMMENT_CLOSE))

normalize_html(html) == Strip(RemoveComments(CollapseWhitespace(html, 1), 1))

(***************************************************************************)
(* find_changed_sections, lines 296-321.  A similarity is a fraction, as   *)
(* ratio gives it.  normalize_html leaves no newline, so split('\n') of    *)
(* lines 312-313 gives one line for each content, and unified_diff is      *)
(* modelled for lists of one line.                                         *)
(***************************************************************************)
NEARLY_IDENTICAL == <<95, 100>>

FROM_HEADER == <<"-", "-", "-", " ">>
TO_HEADER == <<"+", "+", "+", " ">>
HUNK_HEADER == <<"@", "@", " ", "-", "1", " ", "+", "1", " ", "@", "@">>

\* list(difflib.unified_diff([old_line], [new_line], lineterm=''))
unified_diff(old_line, new_line) ==
    IF old_line = new_line THEN <<>>
    ELSE <<FROM_HEADER, TO_HEADER, HUNK_HEADER,
           <<"-">> \o old_line, <<"+">> \o new_line>>

\* the lines of lines 319 and 430 count
ChangeLines(diff_lines) ==
    {n \in 1..Len(diff_lines) :
        diff_lines[n] # <<>> /\ diff_lines[n][1] \in {"+", "-"}}

\* <<diff_lines, similarity>>
find_changed_sections(old, new) ==
    IF Falsy(old) THEN <<None, <<0, 1>>>>
    ELSE LET old_content == normalize_html(extract_main_content(old))
             new_content == normalize_html(extract_main_content(new))
             similarity == ratio(old_content, new_content)
             diff_lines == unified_diff(old_content, new_content)
             changes == Cardinality(ChangeLines(diff_lines))
         IN IF RatLess(NEARLY_IDENTICAL, similarity)
            THEN <<None, similarity>>
            ELSE <<IF changes > 0 THEN diff_lines ELSE None, similarity>>

(***************************************************************************)
(* inject_combined_banner, lines 323-354.  The notice of lines 330-341 is  *)
(* three pieces: a symbol for its text before the percentage, the digits   *)
(* of the percentage, a symbol for its text after the percentage.          *)
(***************************************************************************)
\* the k for which int((1 - similarity) * 100) is k - 1 although
\* similarity is the double nearest to 1 - k/100
PCT_ROUNDS_DOWN == {7, 8, 9, 10, 11, 19, 20, 21, 22, 32, 33, 44, 45, 66}

\* line 326, for a similarity <<m, t>> that stands for the double 2.0*M/T
change_pct(similarity) ==
    LET num == 100 * (similarity[2] - similarity[1])
        k == num \div similarity[2]
    IN IF num % similarity[2] = 0 /\ k \in PCT_ROUNDS_DOWN THEN k - 1 ELSE k

\* str(n) for 0 <= n <= 100
Decimal(n) ==
    LET d(k) == <<"0", "1", "2", "3", "4", "5", "6", "7", "8", "9">>[k + 1]
    IN IF n >= 100 THEN <<"1", "0", "0">>
       ELSE IF n >= 10 THEN <<d(n \div 10), d(n % 10)>>
       ELSE <<d(n)>>

notice(similarity) ==
    <<"NOTICE_BEFORE_PCT">> \o Decimal(change_pct(similarity))
        \o <<"NOTICE_AFTER_PCT">>

BANNER_DIV == <<"<", "d", "i", "v", " ", "c", "l", "a", "s", "s", "=", "\"", "p", "r", "e", "v", "i", "e", "w", "-", "c", "h", "a", "n", "g", "e", "d", "-", "b", "a", "n", "n", "e", "r", "\"">>
PREVIEW_BANNER_PLACEHOLDER == <<"P", "R", "E", "V", "I", "E", "W", "_", "B", "A", "N", "N", "E", "R", "_", "P", "L", "A", "C", "E", "H", "O", "L", "D", "E", "R">>

\* placeholder_pattern (line 344, with re.DOTALL) matched at position i:
\* the position of the match's last character, 0 when there is no match
PlaceholderEnd(s, i) ==
    IF ~MatchAt(s, i, BANNER_DIV) THEN 0
    ELSE LET g == FindChar(s, ">", i + Len(BANNER_DIV))
             ph == IF g = 0 THEN 0
                   ELSE Find(s, PREVIEW_BANNER_PLACEHOLDER, g + 1)
             e == IF ph = 0 THEN 0
                  ELSE Find(s, DIV_CLOSE, ph + Len(PREVIEW_BANNER_PLACEHOLDER))
         IN IF e = 0 THEN 0 ELSE e + Len(DIV_CLOSE) - 1

RECURSIVE ReplacePlaceholders(_, _, _)
\* line 346, scanning from position i
ReplacePlaceholders(s, i, by) ==
    LET M == {j \in i..Len(s) : PlaceholderEnd(s, j) > 0}
    IN IF M = {} THEN SubSeq(s, i, Len(s))
       ELSE SubSeq(s, i, Min(M) - 1) \o by
                \o ReplacePlaceholders(s, PlaceholderEnd(s, Min(M)) + 1, by)

\* the end of the match of (<main[^>]*>) (line 349), 0 without a match
MainTagEnd(html) ==
    LET M == {i \in 1..Len(html) :
                 /\ MatchAt(html, i, MAIN_OPEN)
                 /\ FindChar(html, ">", i + Len(MAIN_OPEN)) > 0}
    IN IF M = {} THEN 0 ELSE FindChar(html, ">", Min(M) + Len(MAIN_OPEN))

inject_combined_banner(html, similarity) ==
    IF \E j \in 1..Len(html) : PlaceholderEnd(html, j) > 0
    THEN ReplacePlaceholders(html, 1, notice(similarity))
    ELSE IF MainTagEnd(html) > 0
    THEN SubSeq(html, 1, MainTagEnd(html)) \o notice(similarity)
             \o SubSeq(html, MainTagEnd(html) + 1, Len(html))
    ELSE html

(***************************************************************************)
(* highlight_toc_entries, lines 362-385.  The pattern of line 375,         *)
(*   (<a[^>]*href="[^"]*FILE[^"]*"[^>]*class="[^"]*")([^"]*"[^>]*>)        *)
(* with FILE the file name taken literally (re.escape).  Both [^>]* before *)
(* a literal are greedy: the match takes the last href=" and then the last *)
(* class=" that let the rest of the pattern match; every other piece ends  *)
(* at the first '"' or ">" after its start.                                *)
(***************************************************************************)
A_START == <<"<", "a">>
HREF_EQ == <<"h", "r", "e", "f", "=", "\"">>
TOC_CLASS == <<" ", "p", "r", "e", "v", "i", "e", "w", "-", "t", "o", "c", "-", "c", "h", "a", "n", "g", "e", "d">>

NoneOf(s, c, from, to) == \A k \in from..to : s[k] # c

\* the pattern from class=" at position p on: <<end of group 1, end of the
\* match>>, <<0, 0>> when it does not match
TocClassTail(s, p) ==
    LET c == FindChar(s, "\"", p + Len(CLASS_EQ))
        r == IF c = 0 THEN 0 ELSE FindChar(s, "\"", c + 1)
        e == IF r = 0 THEN 0 ELSE FindChar(s, ">", r + 1)
    IN IF e = 0 THEN <<0, 0>> ELSE <<c, e>>

\* the pattern from href=" at position p on, for html_file
TocHrefTail(s, p, html_file) ==
    LET v == p + Len(HREF_EQ)
        q == FindChar(s, "\"", v)
        C == IF q = 0 \/ Find(SubSeq(s, v, q - 1), html_file, 1) = 0
             THEN {}
             ELSE {k \in (q + 1)..Len(s) :
                      /\ MatchAt(s, k, CLASS_EQ)
                      /\ NoneOf(s, ">", q + 1, k - 1)
                      /\ TocClassTail(s, k) # <<0, 0>>}
    IN IF C = {} THEN <<0, 0>> ELSE TocClassTail(s, Max(C))

\* the pattern matched at position i
TocMatchAt(s, i, html_file) ==
    IF ~MatchAt(s, i, A_START) THEN <<0, 0>>
    ELSE LET H == {k \in (i + Len(A_START))..Len(s) :
                      /\ MatchAt(s, k, HREF_EQ)
                      /\ NoneOf(s, ">", i + Len(A_START), k - 1)
                      /\ TocHrefTail(s, k, html_file) # <<0, 0>>}
         IN IF H = {} THEN <<0, 0>> ELSE TocHrefTail(s, Max(H), html_file)

RECURSIVE toc_sub(_, _, _)
\* line 383 with add_toc_highlight_class (lines 377-381), from position i
toc_sub(s, i, html_file) ==
    LET M == {j \in i..Len(s) : TocMatchAt(s, j, html_file) # <<0, 0>>}
    IN IF M = {} THEN SubSeq(s, i, Len(s))
       ELSE LET m == TocMatchAt(s, Min(M), html_file)
            IN SubSeq(s, i, m[1]) \o TOC_CLASS \o SubSeq(s, m[1] + 1, m[2])
                   \o toc_sub(s, m[2] + 1, html_file)

(***************************************************************************)
(* The documents of the model: up to MaxOldUnits (MaxNewUnits) pieces of   *)
(* markup, one after the other.                                            *)
(***************************************************************************)
MaxOldUnits == 2
MaxNewUnits == 3

P(inner) == <<"<", "p", ">">> \o inner \o <<"<", "/", "p", ">">>
LI(inner) == <<"<", "l", "i", ">">> \o inner \o <<"<", "/", "l", "i", ">">>

OldUnits ==
    {P(<<"a", "b">>), P(<<"a", " ", "b">>)}

NewUnits ==
    {P(<<"a", "c">>), P(<<"a", " ", "b">>), P(<<"a", " ", "c">>),
     P(<<"a", " ", "<", ">", "b">>), P(<<"\\", "s">>),
     LI(P(<<"a", " ", "c">>)), P(<<" ">>)}

RECURSIVE Concats(_, _)
\* the concatenations of at most n members of U
Concats(U, n) ==
    IF n = 0 THEN {<<>>}
    ELSE {<<>>} \cup {u \o d : u \in U, d \in Concats(U, n - 1)}

OldDocs == Concats(OldUnits, MaxOldUnits) \cup {None}
NewDocs == Concats(NewUnits, MaxNewUnits)

\* the documents of the specification's scenarios B and C
HELLO == <<"H", "e", "l", "l", "o", ".">>
WORLD == <<"W", "o", "r", "l", "d", ".">>
BRAND_NEW_PAGE == <<"B", "r", "a", "n", "d", " ", "n", "e", "w", " ", "p", "a", "g", "e", ".">>

\* the documents of the specification's scenarios A and D
THE_CAT_SAT == <<"T", "h", "e", " ", "c", "a", "t", " ", "s", "a", "t", ".">>
THE_CAT_SLEPT == <<"T", "h", "e", " ", "c", "a", "t", " ", "s", "l", "e", "p", "t", ".">>
A_QUICK_BROWN_FOX == <<"A", " ", "q", "u", "i", "c", "k", " ", "b", "r", "o", "w", "n", " ", "f", "o", "x", ".">>

\* elements that are not comparable, or hold comparable elements
PRE(inner) == <<"<", "p", "r", "e", ">">> \o inner \o <<"<", "/", "p", "r", "e", ">">>
QUOTE(inner) ==
    <<"<">> \o BLOCKQUOTE \o <<">">> \o inner \o <<"<", "/">> \o BLOCKQUOTE \o <<">">>

\* a word added, a word replaced and an element added, in one document
A_B == <<"a", " ", "b">>
A_B_C == <<"a", " ", "b", " ", "c">>
A_C == <<"a", " ", "c">>

\* <<old document, new document>>
ScenarioPairs ==
    {<<P(HELLO), P(HELLO) \o P(WORLD)>>, <<None, P(BRAND_NEW_PAGE)>>,
     <<P(THE_CAT_SAT), P(THE_CAT_SLEPT)>>,
     <<P(A_QUICK_BROWN_FOX), P(A_QUICK_BROWN_FOX)>>,
     <<P(A_B) \o P(A_B), P(A_B_C) \o P(A_C) \o P(<<"a", "c">>)>>,
     <<PRE(<<"x">>) \o P(<<"y">>), PRE(<<"x">>) \o P(<<"y", " ", "z">>)>>,
     <<P(<<"q">>), QUOTE(P(<<"a">>) \o P(<<"b">>))>>,
     <<P(<<" ">>) \o P(A_B), P(<<" ">>) \o P(A_C)>>,
     <<P(A_B_C), P(A_B)>>,
     <<P(<<"\\", "s", " ", "b">>), P(<<"\\", "s">>)>>,
     <<P(A_B) \o P(A_B), P(A_C) \o P(<<"q">>)>>}

Inputs == (OldDocs \X NewDocs) \cup ScenarioPairs

(***************************************************************************)
(* The files process_file works on: the rendered page, with or without     *)
(* the banner placeholder and a <main> element around up to MaxFileUnits   *)
(* pieces of markup, and the published page, if there is one.              *)
(***************************************************************************)
MaxFileUnits == 2

PLACEHOLDER_DIV ==
    BANNER_DIV \o <<">">> \o PREVIEW_BANNER_PLACEHOLDER \o DIV_CLOSE

MAIN(inner) == MAIN_OPEN \o <<">">> \o inner \o MAIN_CLOSE

FileUnits ==
    {P(<<"a", "c">>), P(<<"a", " ", "b">>), P(<<"a", " ", "c">>),
     P(<<"\\", "s">>)}

FileDocs ==
    LET Bodies == Concats(FileUnits, MaxFileUnits) \cup {P(BRAND_NEW_PAGE)}
        Inner == Bodies \cup {PLACEHOLDER_DIV \o b : b \in Bodies}
    IN Inner \cup {MAIN(d) : d \in Inner}

\* a page rendered again as it was published
IdenticalPairs == {<<d, d>> : d \in FileDocs \cup {P(A_QUICK_BROWN_FOX)}}

\* two pages whose normalized contents, 20 characters each, have 19 in
\* common: SequenceMatcher's ratio is 38/40
A_RUN == <<"a", "a", "a", "a", "a", "a", "a", "a", "a", "a", "a">>
GatePairs ==
    {<<MAIN(P(A_RUN \o <<" ", "b">>)), MAIN(P(A_RUN \o <<" ", "c">>))>>}

\* <<published page, rendered page>>
FileInputs == (OldDocs \X FileDocs) \cup IdenticalPairs \cup GatePairs

(***************************************************************************)
(* The navigation documents highlight_toc_entries works on: up to MaxLinks *)
(* links, one after the other, and the list of changed files.              *)
(***************************************************************************)
MaxLinks == 2

FILE_1 == <<"1", ".", "h", "t", "m", "l">>
FILE_2 == <<"2", ".", "h", "t", "m", "l">>
FILE_11 == <<"1", "1", ".", "h", "t", "m", "l">>

HREF(file) == <<" ">> \o HREF_EQ \o file \o <<"\"">>
CLASS(value) == <<" ">> \o CLASS_EQ \o value \o <<"\"">>
ID_Q == <<" ", "i", "d", "=", "\"", "q", "\"">>
A(attributes, text) ==
    A_START \o attributes \o <<">">> \o text \o <<"<", "/", "a", ">">>

Links ==
    {A(HREF(FILE_1) \o CLASS(<<"n">>), <<"x">>),
     A(HREF(FILE_1) \o CLASS(<<"n">>) \o ID_Q, <<"x">>),
     A(CLASS(<<"n">>) \o HREF(FILE_1), <<"x">>),
     A(HREF(FILE_1), <<"x">>),
     A(HREF(FILE_2) \o CLASS(<<"n", " ", "m">>) \o ID_Q, <<"y">>),
     A(HREF(FILE_11) \o CLASS(<<"n">>) \o ID_Q, <<"z">>)}

TocDocs == Concats(Links, MaxLinks)

ChangedFiles == {<<>>, <<FILE_1>>, <<FILE_2>>, <<FILE_1, FILE_2>>}

(***************************************************************************)
(* The strings the similarity is taken of: up to MaxSimLen characters.     *)
(***************************************************************************)
MaxSimLen == 3

SimAlphabet == {"a", "b", " "}

RECURSIVE StringsUpTo(_)
StringsUpTo(n) ==
    IF n = 0 THEN {<<>>}
    ELSE {<<>>} \cup {<<c>> \o s : c \in SimAlphabet, s \in StringsUpTo(n - 1)}

SimStrings == StringsUpTo(MaxSimLen)

VARIABLES
    old_html,               \* the arguments of highlight_changed_elements
    new_html,               \*   (in process_file: its locals of lines 395, 404)
    pc,                     \* "idle", "call", "loop", "done", or "raised"
    old_elem_list,          \* line 223
    new_elements,           \* line 220
    pos,                    \* the new elements the loop of line 236 has taken
    used_old_indices,       \* line 230
    highlighted_new_html,   \* line 233; with changes_made the returned pair
    changes_made,           \* line 234
    matched,                \* history: <<new element, old index>> of line 256
    intended,               \* history: per new element taken, the markup the
                            \*   iteration meant to stand in its place
    last,                   \* history: what the last iteration did
    file_pc,                \* process_file: "none" (not called), "start",
                            \*   "fetched", "highlighting", "end"
    file_html,              \* the content of local_filepath
    base_html,              \* the content of the base file, None without one
    has_placeholder,        \* line 400
    diff_lines,             \* line 410
    similarity,             \* line 410, or the 0.0 of line 455
    toc_pc,                 \* highlight_toc_entries: "none", "call", "loop",
                            \*   "done"
    toc_input,              \* its arguments html and changed_files
    changed_files,
    toc_html,               \* html as the loop of line 372 rewrites it
    changed_html_files,     \* line 368, the files the loop has yet to take
    sim_a,                  \* two strings,
    sim_b,
    sim_unit,               \* the ratios of line 249 taken of their texts,
    sim_doc,                \* the ratios of line 305 taken of them
    diff_pc,                \* highlight_html_diff: "none", "call", "loop",
                            \*   "done"
    diff_old_html,          \* its arguments
    diff_new_html,
    diff_new_text,          \* line 69
    diff_old_words,         \* line 76
    diff_new_words,         \* line 77
    diff_opcodes,           \* matcher.get_opcodes() of line 84
    diff_changed_ranges,    \* line 83
    diff_tokens,            \* html_tokens of line 100
    diff_result,            \* line 102, one entry per token taken
    diff_text_pos,          \* line 103
    diff_calls,             \* history: the calls of line 115, each with its
                            \*   token, its text_pos and what it returned
    diff_return             \* the returned markup, None before the return

hceVars == <<old_html, new_html, pc, old_elem_list, new_elements, pos,
             used_old_indices, highlighted_new_html, changes_made, matched,
             intended, last>>
fileVars == <<file_pc, file_html, base_html, has_placeholder, diff_lines,
              similarity>>
tocVars == <<toc_pc, toc_input, changed_files, toc_html, changed_html_files>>
simVars == <<sim_a, sim_b, sim_unit, sim_doc>>
diffVars == <<diff_pc, diff_old_html, diff_new_html, diff_new_text,
              diff_old_words, diff_new_words, diff_opcodes,
              diff_changed_ranges, diff_tokens, diff_result, diff_text_pos,
              diff_calls, diff_return>>

vars == <<hceVars, fileVars, tocVars, simVars, diffVars>>

\* last before any iteration.  kind is "skipped" (line 239), "modified"
\* (line 255), "added" (line 280) or "untouched" (neither branch); idx and
\* best_ratio are best_match_idx and best_ratio after line 252; html_before,
\* used_before, changes_before are the variables as the iteration found them.
NoStep == [kind |-> "none", unit |-> 0, idx |-> 0, best_ratio |-> <<0, 1>>,
           elem |-> <<>>, text |-> <<>>, html_before |-> <<>>,
           used_before |-> {}, changes_before |-> 0]

\* highlight_changed_elements about to be called with old and new
HceEntered(old, new, at) ==
    /\ old_html = old
    /\ new_html = new
    /\ pc = at
    /\ old_elem_list = <<>>
    /\ new_elements = <<>>
    /\ pos = 0
    /\ used_old_indices = {}
    /\ highlighted_new_html = <<>>
    /\ changes_made = 0
    /\ matched = {}
    /\ intended = <<>>
    /\ last = NoStep

FileNotCalled ==
    /\ file_pc = "none"
    /\ file_html = <<>>
    /\ base_html = None
    /\ has_placeholder = FALSE
    /\ diff_lines = None
    /\ similarity = None

TocNotCalled ==
    /\ toc_pc = "none"
    /\ toc_input = <<>>
    /\ changed_files = <<>>
    /\ toc_html = <<>>
    /\ changed_html_files = {}

NotComputed == [computed |-> FALSE]

SimNotCalled ==
    /\ sim_a = <<>>
    /\ sim_b = <<>>
    /\ sim_unit = NotComputed
    /\ sim_doc = NotComputed

\* highlight_html_diff with the arguments old and new, its locals not yet
\* assigned
DiffEntered(old, new, at) ==
    /\ diff_pc = at
    /\ diff_old_html = old
    /\ diff_new_html = new
    /\ diff_new_text = <<>>
    /\ diff_old_words = <<>>
    /\ diff_new_words = <<>>
    /\ diff_opcodes = <<>>
    /\ diff_changed_ranges = <<>>
    /\ diff_tokens = <<>>
    /\ diff_result = <<>>
    /\ diff_text_pos = 0
    /\ diff_calls = <<>>
    /\ diff_return = None

DiffNotCalled == DiffEntered(<<>>, <<>>, "none")

\* highlight_changed_elements called with a pair of documents
Init ==
    /\ \E input \in Inputs : HceEntered(input[1], input[2], "call")
    /\ FileNotCalled
    /\ TocNotCalled
    /\ SimNotCalled
    /\ DiffNotCalled

\* lines 202-234: return at once without an old document, else extract
\* the elements of both documents
HceCall ==
    /\ pc = "call"
    /\ highlighted_new_html' = new_html
    /\ changes_made' = 0
    /\ IF Falsy(old_html)
       THEN /\ pc' = "done"
            /\ UNCHANGED <<old_elem_list, new_elements>>
       ELSE /\ pc' = "loop"
            /\ old_elem_list' =
                   old_elem_list_of(find_elements(extract_main_content(old_html)))
            /\ new_elements' = find_elements(extract_main_content(new_html))
    /\ UNCHANGED <<old_html, new_html, pos, used_old_indices, matched,
                   intended, last,
                   fileVars, tocVars, simVars, diffVars>>

\* lines 236-292: one iteration of the loop over new_elements
HceIteration ==
    /\ pc = "loop"
    /\ pos < Len(new_elements)
    /\ LET new_elem == new_elements[pos + 1]
           new_text == extract_text_from_element(new_elem)
           best == best_match(old_elem_list, used_old_indices, new_text)
           step(kind) == [kind |-> kind, unit |-> pos + 1, idx |-> best[1],
                          best_ratio |-> best[2], elem |-> new_elem,
                          text |-> new_text,
                          html_before |-> highlighted_new_html,
                          used_before |-> used_old_indices,
                          changes_before |-> changes_made]
           Splice(highlighted_elem) ==
               \* lines 261, 274-278 and 283, 289-292
               LET sub == re_sub(new_elem, highlighted_elem, highlighted_new_html)
               IN IF highlighted_elem = <<>>
                  THEN /\ pc' = "loop"
                       /\ intended' = Append(intended, new_elem)
                       /\ UNCHANGED <<highlighted_new_html, changes_made>>
                  ELSE IF sub.err
                  THEN /\ pc' = "raised"
                       /\ intended' = Append(intended, highlighted_elem)
                       /\ UNCHANGED <<highlighted_new_html, changes_made>>
                  ELSE /\ pc' = "loop"
                       /\ intended' = Append(intended, highlighted_elem)
                       /\ highlighted_new_html' = sub.out
                       /\ changes_made' = changes_made + 1
       IN IF new_text = <<>>
          THEN /\ last' = step("skipped")
               /\ intended' = Append(intended, new_elem)
               /\ UNCHANGED <<pc, used_old_indices, matched,
                              highlighted_new_html, changes_made>>
          ELSE IF IsModified(best)
          THEN /\ used_old_indices' = used_old_indices \cup {best[1]}
               /\ matched' = matched \cup {<<pos + 1, best[1]>>}
               /\ last' = step("modified")
               /\ Splice(modified_elem(old_elem_list[best[1]][2], new_elem))
          ELSE IF IsAdded(best, new_text)
          THEN /\ last' = step("added")
               /\ Splice(added_elem(new_elem))
               /\ UNCHANGED <<used_old_indices, matched>>
          ELSE /\ last' = step("untouched")
               /\ intended' = Append(intended, new_elem)
               /\ UNCHANGED <<pc, used_old_indices, matched,
                              highlighted_new_html, changes_made>>
    /\ pos' = pos + 1
    /\ UNCHANGED <<old_html, new_html, old_elem_list, new_elements,
                   fileVars, tocVars, simVars, diffVars>>

\* line 294
HceReturn ==
    /\ pc = "loop"
    /\ pos = Len(new_elements)
    /\ pc' = "done"
    /\ UNCHANGED <<old_html, new_html, old_elem_list, new_elements, pos,
                   used_old_indices, highlighted_new_html, changes_made,
                   matched, intended, last,
                   fileVars, tocVars, simVars, diffVars>>

Next == HceCall \/ HceIteration \/ HceReturn

Spec == Init /\ [][Next]_vars

(***************************************************************************)
(* process_file, lines 387-460.  The file is one of FileDocs, the base     *)
(* file one of OldDocs (None: fetch_base_html found none, lines 23-41).    *)
(* The call of line 415 is the actions HceCall, HceIteration, HceReturn;   *)
(* an exception of theirs leaves process_file where it is.                 *)
(***************************************************************************)
InitFile ==
    /\ HceEntered(None, <<>>, "idle")
    /\ \E input \in FileInputs :
           /\ base_html = input[1]
           /\ file_html = input[2]
    /\ file_pc = "start"
    /\ has_placeholder = FALSE
    /\ diff_lines = None
    /\ similarity = None
    /\ TocNotCalled
    /\ SimNotCalled
    /\ DiffNotCalled

\* lines 394-404
PfRead ==
    /\ file_pc = "start"
    /\ new_html' = file_html
    /\ has_placeholder' = (Find(file_html, PREVIEW_BANNER_PLACEHOLDER, 1) > 0)
    /\ old_html' = base_html
    /\ file_pc' = "fetched"
    /\ UNCHANGED <<pc, old_elem_list, new_elements, pos, used_old_indices,
                   highlighted_new_html, changes_made, matched, intended, last,
                   file_html, base_html, diff_lines, similarity,
                   tocVars, simVars, diffVars>>

\* lines 406-415, up to the call of highlight_changed_elements
PfCompare ==
    /\ file_pc = "fetched"
    /\ ~Falsy(old_html)
    /\ diff_lines' = find_changed_sections(old_html, new_html)[1]
    /\ similarity' = find_changed_sections(old_html, new_html)[2]
    /\ pc' = "call"
    /\ file_pc' = "highlighting"
    /\ UNCHANGED <<old_html, new_html, old_elem_list, new_elements, pos,
                   used_old_indices, highlighted_new_html, changes_made,
                   matched, intended, last, file_html, base_html,
                   has_placeholder, tocVars, simVars, diffVars>>

\* lines 417-449, once highlight_changed_elements has returned
PfWrite ==
    /\ file_pc = "highlighting"
    /\ pc = "done"
    /\ LET inline_changes == changes_made
           highlighted == IF inline_changes > 0 THEN highlighted_new_html
                          ELSE new_html
           bannered == IF diff_lines # None \/ has_placeholder
                       THEN inject_combined_banner(highlighted, similarity)
                       ELSE highlighted
       IN file_html' = IF diff_lines # None \/ has_placeholder
                          \/ inline_changes > 0
                       THEN bannered ELSE file_html
    /\ file_pc' = "end"
    /\ UNCHANGED <<hceVars, base_html, has_placeholder, diff_lines,
                   similarity, tocVars, simVars, diffVars>>

\* lines 450-458
PfNewFile ==
    /\ file_pc = "fetched"
    /\ Falsy(old_html)
    /\ has_placeholder
    /\ similarity' = <<0, 1>>
    /\ file_html' = inject_combined_banner(new_html, <<0, 1>>)
    /\ file_pc' = "end"
    /\ UNCHANGED <<hceVars, base_html, has_placeholder, diff_lines,
                   tocVars, simVars, diffVars>>

\* lines 459-460
PfNoBase ==
    /\ file_pc = "fetched"
    /\ Falsy(old_html)
    /\ ~has_placeholder
    /\ file_pc' = "end"
    /\ UNCHANGED <<hceVars, file_html, base_html, has_placeholder, diff_lines,
                   similarity, tocVars, simVars, diffVars>>

NextFile ==
    \/ PfRead
    \/ PfCompare
    \/ HceCall
    \/ HceIteration
    \/ HceReturn
    \/ PfWrite
    \/ PfNewFile
    \/ PfNoBase

\* highlight_changed_elements called by itself, without an old document,
\* with the documents of a scenario, or with one document twice
InitDirect ==
    /\ \E input \in (({None, <<>>} \X FileDocs) \cup ScenarioPairs
                          \cup IdenticalPairs) :
           HceEntered(input[1], input[2], "call")
    /\ FileNotCalled
    /\ TocNotCalled
    /\ SimNotCalled
    /\ DiffNotCalled

InitPipeline == InitFile \/ InitDirect

SpecFile == InitPipeline /\ [][NextFile]_vars

(***************************************************************************)
(* highlight_toc_entries, lines 362-385.                                   *)
(***************************************************************************)
InitToc ==
    /\ HceEntered(None, <<>>, "idle")
    /\ FileNotCalled
    /\ toc_pc = "call"
    /\ toc_input \in TocDocs
    /\ changed_files \in ChangedFiles
    /\ toc_html = <<>>
    /\ changed_html_files = {}
    /\ SimNotCalled
    /\ DiffNotCalled

Range(list) == {list[n] : n \in 1..Len(list)}

\* lines 362-368
TocCall ==
    /\ toc_pc = "call"
    /\ toc_html' = toc_input
    /\ IF changed_files = <<>>
       THEN toc_pc' = "done" /\ UNCHANGED changed_html_files
       ELSE toc_pc' = "loop" /\ changed_html_files' = Range(changed_files)
    /\ UNCHANGED <<hceVars, fileVars, toc_input, changed_files, simVars, diffVars>>

\* lines 372-383: the loop takes the files of the set in any order
TocIteration ==
    /\ toc_pc = "loop"
    /\ \E html_file \in changed_html_files :
           /\ toc_html' = toc_sub(toc_html, 1, html_file)
           /\ changed_html_files' = changed_html_files \ {html_file}
    /\ UNCHANGED <<hceVars, fileVars, toc_pc, toc_input, changed_files,
                   simVars, diffVars>>

\* line 385
TocReturn ==
    /\ toc_pc = "loop"
    /\ changed_html_files = {}
    /\ toc_pc' = "done"
    /\ UNCHANGED <<hceVars, fileVars, toc_input, changed_files, toc_html,
                   changed_html_files, simVars, diffVars>>

NextToc == TocCall \/ TocIteration \/ TocReturn

SpecToc == InitToc /\ [][NextToc]_vars

(***************************************************************************)
(* The two similarities: the ratio of line 249, taken of the texts of      *)
(* lines 225 and 237, and the ratio of line 305, which find_changed_       *)
(* sections returns; each for a pair of strings, for the pair the other    *)
(* way round, and for the first string and itself.                         *)
(***************************************************************************)
InitSim ==
    /\ HceEntered(None, <<>>, "idle")
    /\ FileNotCalled
    /\ TocNotCalled
    /\ DiffNotCalled
    /\ sim_a \in SimStrings
    /\ sim_b \in SimStrings
    /\ sim_unit = NotComputed
    /\ sim_doc = NotComputed

\* lines 225, 237, 249
SimUnit ==
    /\ ~sim_unit.computed
    /\ LET old_text == extract_text_from_element(sim_a)
           new_text == extract_text_from_element(sim_b)
       IN sim_unit' = [computed |-> TRUE,
                       old_text |-> old_text, new_text |-> new_text,
                       ab |-> ratio(old_text, new_text),
                       ba |-> ratio(new_text, old_text),
                       aa |-> ratio(old_text, old_text)]
    /\ UNCHANGED <<hceVars, fileVars, tocVars, sim_a, sim_b, sim_doc,
                   diffVars>>

\* lines 296-309
SimDocument ==
    /\ ~sim_doc.computed
    /\ sim_doc' = [computed |-> TRUE,
                   ab |-> find_changed_sections(sim_a, sim_b)[2],
                   ba |-> find_changed_sections(sim_b, sim_a)[2],
                   aa |-> find_changed_sections(sim_a, sim_a)[2]]
    /\ UNCHANGED <<hceVars, fileVars, tocVars, sim_a, sim_b, sim_unit,
                   diffVars>>

NextSim == SimUnit \/ SimDocument

SpecSim == InitSim /\ [][NextSim]_vars

(***************************************************************************)
(* highlight_html_diff step by step, lines 65-120, called as line 255      *)
(* calls it: with the markup of an old element and of a new element.       *)
(***************************************************************************)
MaxOldWords == 2
MaxNewPieces == 3

AMP == <<"&", "a", "m", "p", ";">>
B_X == <<"<", "b", ">", "x", "<", "/", "b", ">">>

RECURSIVE JoinWords(_)
\* the words with one space between each two
JoinWords(ws) ==
    IF ws = <<>> THEN <<>>
    ELSE IF Len(ws) = 1 THEN ws[1]
    ELSE ws[1] \o <<" ">> \o JoinWords(Tail(ws))

\* inner content of an old element: up to MaxOldWords words
OldContents ==
    {JoinWords(ws) : ws \in UNION {[1..n -> {<<"a">>, <<"b">>}] : n \in 0..MaxOldWords}}

\* what the inner content of a new element is put together from: a word
\* with the space after it, a bare word, a space, a character reference,
\* an inline element
NewPieces == {<<"a", " ">>, <<"b">>, <<"c">>, <<" ">>, AMP \o <<" ">>, B_X}

\* inner content of a new element: up to MaxNewPieces pieces
NewContents ==
    {Flatten(ps) : ps \in UNION {[1..n -> NewPieces] : n \in 0..MaxNewPieces}}

DiffInputs == {<<P(o), P(n)>> : o \in OldContents, n \in NewContents}

InitDiff ==
    /\ \E input \in DiffInputs : DiffEntered(input[1], input[2], "call")
    /\ HceEntered(None, <<>>, "idle")
    /\ FileNotCalled
    /\ TocNotCalled
    /\ SimNotCalled

\* lines 65-103: the early returns, else the changed ranges and the tokens
DiffCall ==
    /\ diff_pc = "call"
    /\ LET old_text == extract_text_from_element(
                            DIV_OPEN \o diff_old_html \o DIV_CLOSE)
           new_text == extract_text_from_element(
                            DIV_OPEN \o diff_new_html \o DIV_CLOSE)
           old_words == Words(old_text)
           new_words == Words(new_text)
           opcodes == get_opcodes(old_words, new_words)
           changed_ranges == RangesOf(opcodes, new_words)
       IN /\ diff_new_text' = new_text
          /\ IF old_text = <<>> \/ new_text = <<>>
             THEN /\ diff_return' = diff_new_html
                  /\ diff_pc' = "done"
                  /\ UNCHANGED <<diff_old_words, diff_new_words, diff_opcodes,
                                 diff_changed_ranges, diff_tokens>>
             ELSE /\ diff_old_words' = old_words
                  /\ diff_new_words' = new_words
                  /\ diff_opcodes' = opcodes
                  /\ diff_changed_ranges' = changed_ranges
                  /\ IF changed_ranges = <<>>
                     THEN /\ diff_return' = diff_new_html
                          /\ diff_pc' = "done"
                          /\ UNCHANGED diff_tokens
                     ELSE /\ diff_tokens' = html_tokens(diff_new_html, 1)
                          /\ diff_pc' = "loop"
                          /\ UNCHANGED diff_return
    /\ UNCHANGED <<diff_old_html, diff_new_html, diff_result, diff_text_pos,
                   diff_calls, hceVars, fileVars, tocVars, simVars>>

\* lines 105-118: one token
DiffToken ==
    /\ diff_pc = "loop"
    /\ Len(diff_result) < Len(diff_tokens)
    /\ LET token == diff_tokens[Len(diff_result) + 1]
       IN IF token[1] = "<"
          THEN /\ diff_result' = Append(diff_result, token)
               /\ UNCHANGED <<diff_text_pos, diff_calls>>
          ELSE LET highlighted == apply_highlights_to_text(
                                      token, diff_text_pos, diff_changed_ranges)
               IN /\ diff_result' = Append(diff_result, highlighted)
                  /\ diff_text_pos' = diff_text_pos + Len(token)
                  /\ diff_calls' = Append(diff_calls,
                                          [token |-> token,
                                           text_pos |-> diff_text_pos,
                                           before |-> Flatten(diff_result),
                                           highlighted |-> highlighted])
    /\ UNCHANGED <<diff_pc, diff_old_html, diff_new_html, diff_new_text,
                   diff_old_words, diff_new_words, diff_opcodes,
                   diff_changed_ranges, diff_tokens, diff_return,
                   hceVars, fileVars, tocVars, simVars>>

\* line 120
DiffReturn ==
    /\ diff_pc = "loop"
    /\ Len(diff_result) = Len(diff_tokens)
    /\ diff_return' = Flatten(diff_result)
    /\ diff_pc' = "done"
    /\ UNCHANGED <<diff_old_html, diff_new_html, diff_new_text,
                   diff_old_words, diff_new_words, diff_opcodes,
                   diff_changed_ranges, diff_tokens, diff_result,
                   diff_text_pos, diff_calls,
                   hceVars, fileVars, tocVars, simVars>>

NextDiff == DiffCall \/ DiffToken \/ DiffReturn

SpecDiff == InitDiff /\ [][NextDiff]_vars


(***************************************************************************)
(* What the properties below speak of.                                     *)
(***************************************************************************)
MARKERS == {MARK_TEXT_CHANGED, MARK_TEXT_ADDED, MARK_ELEMENT_ADDED, MARK_CLOSE}

MarkerAt(s, i) == \E m \in MARKERS : MatchAt(s, i, m)
MarkerLen(s, i) == Len(CHOOSE m \in MARKERS : MatchAt(s, i, m))

RECURSIVE StripMarkers(_, _)
\* s from position i on, without the highlight markers
StripMarkers(s, i) ==
    LET M == {j \in i..Len(s) : MarkerAt(s, j)}
    IN IF M = {} THEN SubSeq(s, i, Len(s))
       ELSE SubSeq(s, i, Min(M) - 1) \o StripMarkers(s, Min(M) + MarkerLen(s, Min(M)))

RECURSIVE TagList(_, _)
\* the tags <...> of s from position i on, in order
TagList(s, i) ==
    LET T == {j \in i..Len(s) : TagEnd(s, j) > 0}
    IN IF T = {} THEN <<>>
       ELSE <<SubSeq(s, Min(T), TagEnd(s, Min(T)))>> \o TagList(s, TagEnd(s, Min(T)) + 1)

IsEndTag(tag) == tag[2] = "/"

TagName(tag) ==
    LET first == IF IsEndTag(tag) THEN 3 ELSE 2
        stop == Min({k \in first..Len(tag) : tag[k] \in Whitespace \cup {">", "/"}})
    IN SubSeq(tag, first, stop - 1)

RECURSIVE Balanced(_, _)
\* every end tag closes the element opened last, and none stays open
Balanced(tags, open) ==
    IF tags = <<>> THEN open = <<>>
    ELSE IF IsEndTag(Head(tags))
    THEN /\ open # <<>>
         /\ Head(open) = TagName(Head(tags))
         /\ Balanced(Tail(tags), Tail(open))
    ELSE Balanced(Tail(tags), <<TagName(Head(tags))>> \o open)

ProperlyNested(s) == Balanced(TagList(s, 1), <<>>)

IsMarkTag(tag) == TagName(tag) = <<"m", "a", "r", "k">>
NotMarkTag(tag) == ~IsMarkTag(tag)

RECURSIVE InPlace(_, _, _, _)
\* html with the element at each of the first Len(by) spans (positions in
\* the main content, which starts off characters into html) replaced by
\* the markup of the same number in by, the last span first
InPlace(html, off, spans, by) ==
    IF by = <<>> THEN html
    ELSE LET n == Len(by)
             last_done == SubSeq(html, 1, off + spans[n][1] - 1) \o by[n]
                          \o SubSeq(html, off + spans[n][2] + 1, Len(html))
         IN InPlace(last_done, off, spans, SubSeq(by, 1, n - 1))

\* the new document with every element taken so far replaced, where it
\* stands, by the markup its iteration built for it
SplicedInPlace ==
    InPlace(new_html, main_content_span(new_html)[1] - 1,
            ElementSpans(extract_main_content(new_html), 1), intended)

\* an old element with the text of the last new element
IdenticalOld(idx) ==
    /\ idx \in 1..Len(old_elem_list)
    /\ old_elem_list[idx][1] = last.text

Took == last.kind # "none"

(***************************************************************************)
(* C1.  Matching exclusivity: at every step of the loop the modified pairs *)
(* are a partial injective mapping: no old element is the match of two new *)
(* elements and no new element is matched with two old elements.           *)
(***************************************************************************)
MatchingExclusivity ==
    /\ \A m, n \in matched : (m[1] = n[1]) <=> (m[2] = n[2])
    /\ used_old_indices = {m[2] : m \in matched}
    /\ \A m \in matched : m[1] \in 1..pos /\ m[2] \in 1..Len(old_elem_list)

\* two new elements are matched, with two old elements
TwoPairsMatched == Cardinality(matched) >= 2

(***************************************************************************)
(* C2.  Annotation removal round trip: the returned document without its   *)
(* highlight markers is the new document, character for character.         *)
(***************************************************************************)
RemovalRoundTrip ==
    pc = "done" => StripMarkers(highlighted_new_html, 1) = new_html

(***************************************************************************)
(* C3.  Structural safety: the document returned for a properly nested new *)
(* document is properly nested, and its tags other than the markers are    *)
(* the new document's tags, unchanged and in their order.                  *)
(***************************************************************************)
StructuralSafety ==
    (pc = "done" /\ ProperlyNested(new_html)) =>
        /\ ProperlyNested(highlighted_new_html)
        /\ SelectSeq(TagList(highlighted_new_html, 1), NotMarkTag) = TagList(new_html, 1)

ThresholdClassification ==
    (Took /\ last.text # <<>> /\ pc # "raised") =>
        /\ (/\ ~RatLess(last.best_ratio, SIMILARITY_THRESHOLD_MIN)
            /\ RatLess(last.best_ratio, SIMILARITY_THRESHOLD_MAX)) =>
               /\ last.kind = "modified"
               /\ last.idx \in used_old_indices
               /\ changes_made = last.changes_before + 1
        /\ ~RatLess(last.best_ratio, SIMILARITY_THRESHOLD_MAX) =>
               /\ last.kind = "untouched"
               /\ highlighted_new_html = last.html_before
               /\ used_old_indices = last.used_before
        /\ \/ last.kind \in {"modified", "added"}
           \/ /\ last.kind = "untouched"
              /\ ~RatLess(last.best_ratio, SIMILARITY_THRESHOLD_MAX)

(***************************************************************************)
(* C6.  Added classification: a new element with text whose best ratio is  *)
(* below 0.5, or for which no unmatched old element is left, has its whole *)
(* inner content wrapped in one added marker where it stands, the count    *)
(* goes up by exactly one, and the used set is as it was.                  *)
(***************************************************************************)
AddedLeavesPool ==
    (/\ Took
     /\ last.text # <<>>
     /\ \/ RatLess(last.best_ratio, SIMILARITY_THRESHOLD_MIN)
        \/ last.used_before = 1..Len(old_elem_list)) =>
        /\ last.kind = "added"
        /\ pc # "raised"
        /\ intended[last.unit] = added_elem(last.elem)
        /\ highlighted_new_html = SplicedInPlace
        /\ changes_made = last.changes_before + 1
        /\ used_old_indices = last.used_before

(***************************************************************************)
(* C8.  No fatal condition: highlight_changed_elements never raises.       *)
(***************************************************************************)
NeverRaises == pc # "raised"

(***************************************************************************)
(* What the properties of process_file, highlight_toc_entries and the      *)
(* similarities speak of.                                                  *)
(***************************************************************************)
\* there is no old document
Absent(html) == html = None \/ html = <<>>

ONE == <<1, 1>>
ZERO == <<0, 1>>

\* every comparable element of doc that has text stands in out wrapped as
\* an added element
EveryUnitFlaggedAdded(out, doc) ==
    LET elements == find_elements(extract_main_content(doc))
    IN \A n \in 1..Len(elements) :
           extract_text_from_element(elements[n]) # <<>>
               => Find(out, added_elem(elements[n]), 1) > 0

RECURSIVE WithoutNotice(_, _)
\* s from position i on, without the notices of inject_combined_banner
WithoutNotice(s, i) ==
    LET b == FindChar(s, "NOTICE_BEFORE_PCT", i)
    IN IF b = 0 THEN SubSeq(s, i, Len(s))
       ELSE SubSeq(s, i, b - 1)
                \o WithoutNotice(s, FindChar(s, "NOTICE_AFTER_PCT", b) + 1)

DirectCallDone == file_pc = "none" /\ pc = "done"
FileDone == file_pc = "end"

Anchors(s) ==
    LET tags == TagList(s, 1)
    IN {tags[n] : n \in {k \in 1..Len(tags) :
                            ~IsEndTag(tags[k]) /\ TagName(tags[k]) = <<"a">>}}

HasAttribute(tag, name_eq) == Find(tag, <<" ">> \o name_eq, 1) > 0

\* the value of the attribute of tag that name_eq (name="...) starts
AttributeValue(tag, name_eq) ==
    LET v == Find(tag, <<" ">> \o name_eq, 1) + 1 + Len(name_eq)
    IN SubSeq(tag, v, FindChar(tag, "\"", v) - 1)

\* tag with token at the end of the value of its class attribute
WithClassToken(tag, token) ==
    LET v == Find(tag, <<" ">> \o CLASS_EQ, 1) + 1 + Len(CLASS_EQ)
        q == FindChar(tag, "\"", v)
    IN SubSeq(tag, 1, q - 1) \o token \o SubSeq(tag, q, Len(tag))

\* the links of the navigation document that point to a changed file and
\* have a class attribute
ChangedLinks ==
    {tag \in Anchors(toc_input) :
        /\ HasAttribute(tag, HREF_EQ)
        /\ HasAttribute(tag, CLASS_EQ)
        /\ \E n \in 1..Len(changed_files) :
               AttributeValue(tag, HREF_EQ) = changed_files[n]}

(***************************************************************************)
(* C9.  highlight_toc_entries appends inside the class attribute: every    *)
(* link of the navigation document whose href is one of changed_files      *)
(* comes back with preview-toc-changed at the end of the value of its      *)
(* class attribute, the classes it had still there, wherever the class     *)
(* attribute stands among the attributes.                                  *)
(***************************************************************************)
TocAppendsInsideClass ==
    toc_pc = "done"
        => \A tag \in ChangedLinks :
               Find(toc_html, WithClassToken(tag, TOC_CLASS), 1) > 0

MarkStartTags(s) ==
    LET tags == TagList(s, 1)
    IN {tags[n] : n \in {k \in 1..Len(tags) :
                            ~IsEndTag(tags[k]) /\ IsMarkTag(tags[k])}}

\* <mark class="name">
MarkerOfClass(name) ==
    <<"<", "m", "a", "r", "k", " ", "c", "l", "a", "s", "s", "=", "\"">>
        \o name \o <<"\"", ">">>

\* the class names of the specification
SPEC_CLASSES ==
    {<<"m", "o", "d", "i", "f", "i", "e", "d", "-", "t", "e", "x", "t">>,
     <<"a", "d", "d", "e", "d", "-", "t", "e", "x", "t">>,
     <<"a", "d", "d", "e", "d", "-", "e", "l", "e", "m", "e", "n", "t">>}

\* the class names of lines 156, 158 and 287
PREVIEW_CLASSES ==
    {<<"p", "r", "e", "v", "i", "e", "w", "-", "t", "e", "x", "t", "-", "c", "h", "a", "n", "g", "e", "d">>,
     <<"p", "r", "e", "v", "i", "e", "w", "-", "t", "e", "x", "t", "-", "a", "d", "d", "e", "d">>,
     <<"p", "r", "e", "v", "i", "e", "w", "-", "e", "l", "e", "m", "e", "n", "t", "-", "a", "d", "d", "e", "d">>}

(***************************************************************************)
(* C11 as stated.  Marker classes: every marker in the document being      *)
(* built is an inline element carrying exactly one of the class names      *)
(* modified-text, added-text, added-element.                               *)
(***************************************************************************)
MarkersCarrySpecClasses ==
    \A tag \in MarkStartTags(highlighted_new_html) :
        \E name \in SPEC_CLASSES : tag = MarkerOfClass(name)

(***************************************************************************)
(* C11 as amended.  Every marker in the document being built is a <mark>   *)
(* element carrying exactly one of the class names preview-text-changed    *)
(* (a replaced run of words), preview-text-added (an inserted run of       *)
(* words), preview-element-added (a whole added element), and nothing      *)
(* else.                                                                   *)
(***************************************************************************)
MarkersCarryPreviewClasses ==
    \A tag \in MarkStartTags(highlighted_new_html) :
        \E name \in PREVIEW_CLASSES : tag = MarkerOfClass(name)

\* the returned document carries markers of all three classes
AllThreeClassesEmitted ==
    /\ pc = "done"
    /\ {MarkerOfClass(name) : name \in PREVIEW_CLASSES}
           = MarkStartTags(highlighted_new_html)

(***************************************************************************)
(* What the properties of the word-level highlighting speak of.            *)
(***************************************************************************)
\* the numbers of the words in which two lists of words of one length differ
DifferingWords(old_words, new_words) ==
    {n \in 1..Len(new_words) : old_words[n] # new_words[n]}

\* the two texts differ in exactly one word, not a run of whitespace
DifferInOneWord(old_text, new_text) ==
    LET old_words == Words(old_text)
        new_words == Words(new_text)
    IN /\ Len(old_words) = Len(new_words)
       /\ Cardinality(DifferingWords(old_words, new_words)) = 1
       /\ \A n \in DifferingWords(old_words, new_words) :
              new_words[n][1] \notin Whitespace /\ old_words[n][1] \notin Whitespace

\* the word in which new_text differs from old_text
DifferingWord(old_text, new_text) ==
    Words(new_text)[CHOOSE n \in DifferingWords(Words(old_text), Words(new_text)) : TRUE]

\* markup is elem with one occurrence of word, and nothing else, wrapped
\* in a changed-text marker
WrapsJust(markup, elem, word) ==
    \E k \in 1..Len(elem) :
        /\ MatchAt(elem, k, word)
        /\ markup = SubSeq(elem, 1, k - 1) \o MARK_TEXT_CHANGED \o word
                        \o MARK_CLOSE \o SubSeq(elem, k + Len(word), Len(elem))

SLEPT == <<"s", "l", "e", "p", "t", ".">>
THE_CAT_ == <<"T", "h", "e", " ", "c", "a", "t", " ">>

(***************************************************************************)
(* C12.  Scenario A: for old <p>The cat sat.</p> and new <p>The cat        *)
(* slept.</p> the unit is modified, the one change range is the replace    *)
(* range [8,14) of the new text, the returned document wraps exactly       *)
(* "slept." in one changed-text marker, and the count is 1.  More          *)
(* generally, a new unit that differs from its old unit in exactly one     *)
(* word that is not whitespace has exactly that word wrapped.              *)
(***************************************************************************)
SingleWordReplacement ==
    /\ (pc = "done" /\ old_html = P(THE_CAT_SAT) /\ new_html = P(THE_CAT_SLEPT))
           => /\ last.kind = "modified"
              /\ changed_ranges_of(THE_CAT_SAT, THE_CAT_SLEPT)
                     = << <<8, 14, "replace">> >>
              /\ highlighted_new_html
                     = P(THE_CAT_ \o MARK_TEXT_CHANGED \o SLEPT \o MARK_CLOSE)
              /\ changes_made = 1
    /\ (/\ Took
        /\ pc # "raised"
        /\ last.idx # 0
        /\ DifferInOneWord(old_elem_list[last.idx][1], last.text))
           => /\ last.kind = "modified"
              /\ WrapsJust(intended[last.unit], last.elem,
                           DifferingWord(old_elem_list[last.idx][1], last.text))

\* the first conjunct alone
ScenarioAHolds ==
    (pc = "done" /\ old_html = P(THE_CAT_SAT) /\ new_html = P(THE_CAT_SLEPT))
        => /\ last.kind = "modified"
           /\ changed_ranges_of(THE_CAT_SAT, THE_CAT_SLEPT)
                  = << <<8, 14, "replace">> >>
           /\ highlighted_new_html
                  = P(THE_CAT_ \o MARK_TEXT_CHANGED \o SLEPT \o MARK_CLOSE)
           /\ changes_made = 1

LeadingWhitespace(s) ==
    LET N == {i \in 1..Len(s) : s[i] \notin Whitespace}
    IN IF N = {} THEN Len(s) ELSE Min(N) - 1

\* the text of the text tokens handed to apply_highlights_to_text before
\* the k-th call
TextBeforeCall(k) == Flatten([i \in 1..(k - 1) |-> diff_calls[i].token])

\* where the text of the token of the k-th call begins inside new_text:
\* the decoded length of the text before it, less the leading whitespace
\* the projection stripped
OffsetInNewText(k) ==
    Len(unescape(TextBeforeCall(k)))
        - LeadingWhitespace(unescape(TextBeforeCall(Len(diff_calls) + 1)
                                     \o Flatten([i \in 1..(Len(diff_tokens) - Len(diff_result))
                                                    |-> LET tk == diff_tokens[Len(diff_result) + i]
                                                        IN IF tk[1] = "<" THEN <<>> ELSE tk])))

RECURSIVE Wrapped(_, _)
\* what stands inside the text markers of s from position i on, in order
Wrapped(s, i) ==
    LET M == {j \in i..Len(s) : MatchAt(s, j, MARK_TEXT_CHANGED)
                                   \/ MatchAt(s, j, MARK_TEXT_ADDED)}
    IN IF M = {} THEN <<>>
       ELSE LET from == Min(M) + (IF MatchAt(s, Min(M), MARK_TEXT_CHANGED)
                                  THEN Len(MARK_TEXT_CHANGED)
                                  ELSE Len(MARK_TEXT_ADDED))
                to == Find(s, MARK_CLOSE, from)
            IN <<SubSeq(s, from, to - 1)>> \o Wrapped(s, to + Len(MARK_CLOSE))

NoWhitespace(s) == SelectSeq(s, LAMBDA c : c \notin Whitespace)

\* the new words of the replace and insert opcodes, in order
ChangedNewWords ==
    Flatten([k \in 1..Len(diff_opcodes) |->
                IF diff_opcodes[k][1] \in {"replace", "insert"}
                THEN Flatten(Slice(diff_new_words, diff_opcodes[k][4],
                                   diff_opcodes[k][5]))
                ELSE <<>>])

(***************************************************************************)
(* C14.  Offset consistency: every text token is intersected with the      *)
(* changed ranges at the offset its text has inside new_text, and so the   *)
(* characters inside the markers of the returned markup are the characters *)
(* of the new words of the replace and insert opcodes (whitespace is left  *)
(* out of the comparison: whitespace-only tokens are passed through).      *)
(***************************************************************************)
OffsetConsistency ==
    /\ \A k \in 1..Len(diff_calls) :
           diff_calls[k].text_pos = OffsetInNewText(k)
    /\ (diff_pc = "done" /\ diff_changed_ranges # <<>>)
           => NoWhitespace(unescape(Flatten(Wrapped(diff_return, 1))))
                  = NoWhitespace(ChangedNewWords)

\* the replace and insert opcodes, in order
ChangingOpcodes ==
    SelectSeq(diff_opcodes, LAMBDA op : op[1] \in {"replace", "insert"})

\* the length of the new words before index j, put together
NewLengthBefore(j) == Len(Flatten(Slice(diff_new_words, 0, j)))

\* one range per replace or insert opcode and no other, from the length of
\* the new words before j1 to the length of those before j2, in ascending
\* order and apart from each other
RangesFollowOpcodes ==
    /\ Len(diff_changed_ranges) = Len(ChangingOpcodes)
    /\ \A n \in 1..Len(diff_changed_ranges) :
           /\ diff_changed_ranges[n][1] = NewLengthBefore(ChangingOpcodes[n][4])
           /\ diff_changed_ranges[n][2] = NewLengthBefore(ChangingOpcodes[n][5])
           /\ diff_changed_ranges[n][3] = ChangingOpcodes[n][1]
           /\ diff_changed_ranges[n][1] < diff_changed_ranges[n][2]
    /\ \A m, n \in 1..Len(diff_changed_ranges) :
           m < n => diff_changed_ranges[m][2] <= diff_changed_ranges[n][1]

(***************************************************************************)
(* C15.  Opcode mapping: highlight_html_diff makes one change range per    *)
(* replace opcode and one per insert opcode, none for equal or delete      *)
(* opcodes; a range runs from the length of the new words before j1 to the *)
(* length of the new words before j2; the ranges are in ascending order    *)
(* and do not overlap; and every range of a replace opcode carries with it *)
(* the run of old words it replaced.                                       *)
(***************************************************************************)
OpcodeMapping ==
    /\ RangesFollowOpcodes
    /\ \A n \in 1..Len(diff_changed_ranges) :
           diff_changed_ranges[n][3] = "replace"
               => /\ Len(diff_changed_ranges[n]) > 3
                  /\ diff_changed_ranges[n][4]
                         = Flatten(Slice(diff_old_words, ChangingOpcodes[n][2],
                                         ChangingOpcodes[n][3]))

(***************************************************************************)
(* C16.  Whitespace-only sub-spans are never wrapped: in what              *)
(* apply_highlights_to_text returns for a text token, no marker stands     *)
(* around nothing or around whitespace alone.  Stated of the calls whose   *)
(* token holds no character reference and is taken at the offset its text  *)
(* has inside new_text, so that a range that covers a whitespace run is a  *)
(* range of a changed whitespace run.                                      *)
(***************************************************************************)
NoWhitespaceOnlyMarker ==
    \A k \in 1..Len(diff_calls) :
        (/\ diff_calls[k].text_pos = OffsetInNewText(k)
         /\ \A i \in 1..Len(diff_calls[k].token) : diff_calls[k].token[i] # "&")
            => LET wrapped == Wrapped(diff_calls[k].highlighted, 1)
               IN \A n \in 1..Len(wrapped) : Strip(wrapped[n]) # <<>>

\* the tag names of the comparable elements
COMPARABLE_NAMES ==
    {<<"p">>, <<"l", "i">>, BLOCKQUOTE} \cup {<<"h", d>> : d \in {"1", "2", "3", "4", "5", "6"}}

\* elem is one element of a comparable kind: its first tag is a start tag
\* with one of the names, its last tag the end tag that closes it
WhitelistedPair(elem) ==
    LET tags == TagList(elem, 1)
    IN /\ tags # <<>>
       /\ MatchAt(elem, 1, tags[1])
       /\ ~IsEndTag(tags[1])
       /\ TagName(tags[1]) \in COMPARABLE_NAMES
       /\ IsEndTag(tags[Len(tags)])
       /\ TagName(tags[Len(tags)]) = TagName(tags[1])
       /\ Balanced(tags, <<>>)
       /\ \A n \in 1..(Len(tags) - 1) : ~Balanced(SubSeq(tags, 1, n), <<>>)

(***************************************************************************)
(* C17.  Unit boundaries are whitelisted tag pairs: every element the      *)
(* pattern takes out of the old or the new document starts with a start    *)
(* tag named p, h1..h6, li or blockquote and ends with the end tag that    *)
(* closes that start tag.                                                  *)
(***************************************************************************)
UnitsAreWhitelistedPairs ==
    pc \in {"loop", "done", "raised"}
        => /\ \A n \in 1..Len(new_elements) : WhitelistedPair(new_elements[n])
           /\ \A n \in 1..Len(old_elem_list) : WhitelistedPair(old_elem_list[n][2])

\* the comparable elements of a well-formed content, each <<first, last>>
\* from its start tag to the end tag that closes it
ComparableElements(content) ==
    {<<i, TagEnd(content, k)>> : i, k \in 1..Len(content)} \cap
    {e \in (1..Len(content)) \X (1..Len(content)) :
        /\ TagEnd(content, e[1]) > 0
        /\ WhitelistedPair(SubSeq(content, e[1], e[2]))}

(***************************************************************************)
(* C18.  Nested comparable elements are not separately extracted: of a     *)
(* well-formed document the extracted units are spans in document order    *)
(* that do not overlap, and no unit begins inside another comparable       *)
(* element of the document.                                                *)
(***************************************************************************)
NestedNotExtracted ==
    (pc \in {"loop", "done", "raised"} /\ ProperlyNested(new_html))
        => LET content == extract_main_content(new_html)
               spans == ElementSpans(content, 1)
           IN /\ \A m, n \in 1..Len(spans) : m < n => spans[m][2] < spans[n][1]
              /\ \A n \in 1..Len(spans) :
                     \A e \in ComparableElements(content) :
                         ~(e[1] < spans[n][1] /\ spans[n][1] < e[2])

\* the gate of the similarity of the whole documents
GATE == <<95, 100>>

HasBanner(html) == FindChar(html, "NOTICE_BEFORE_PCT", 1) > 0

\* process_file has got as far as the unit-level pass, with an old document
ComparedWithOld == file_pc \in {"highlighting", "end"} /\ ~Absent(base_html)

(***************************************************************************)
(* C19.  Global similarity gate: with an old document, process_file runs   *)
(* highlight_changed_elements whatever the similarity of the whole         *)
(* documents, and the file it writes has the banner only when that         *)
(* similarity is below 0.95: at 0.95 and above there is no banner.         *)
(***************************************************************************)
SimilarityGate ==
    /\ ComparedWithOld => pc # "idle"
    /\ (FileDone /\ ~Absent(base_html) /\ HasBanner(file_html))
           => RatLess(similarity, GATE)

\* the same, of the files without the banner placeholder
SimilarityGateWithoutPlaceholder == ~has_placeholder => SimilarityGate

(***************************************************************************)
(* C20.  Splice in place: after a step that found its element modified or  *)
(* added, the document is the new document with every element taken so    *)
(* far replaced, in its own span, by the markup built for it, and nothing  *)
(* else changed; also when the markup of the element stands in the         *)
(* document more than once.                                                *)
(***************************************************************************)
SpliceInPlace ==
    (Took /\ pc # "raised" /\ last.kind \in {"modified", "added"})
        => highlighted_new_html = SplicedInPlace

\* how often pat stands in s
Occurrences(s, pat) == Cardinality({i \in 1..Len(s) : MatchAt(s, i, pat)})

\* the plain text of elem is empty
EmptyProjection(elem) == extract_text_from_element(elem) = <<>>

(***************************************************************************)
(* C21.  Empty projection is excluded: no element without text is in the   *)
(* old list, none is matched, and a new element without text is passed     *)
(* over: the step that takes it leaves the document, the count and the     *)
(* used set as they were, and no later step puts a marker into it.         *)
(***************************************************************************)
EmptyProjectionExcluded ==
    /\ \A n \in 1..Len(old_elem_list) :
           /\ old_elem_list[n][1] # <<>>
           /\ ~EmptyProjection(old_elem_list[n][2])
    /\ \A m \in matched : ~EmptyProjection(new_elements[m[1]])
    /\ (Took /\ EmptyProjection(last.elem))
           => /\ last.kind = "skipped"
              /\ pc # "raised"
              /\ highlighted_new_html = last.html_before
              /\ changes_made = last.changes_before
              /\ used_old_indices = last.used_before
    /\ \A n \in 1..Len(new_elements) :
           EmptyProjection(new_elements[n])
               => Occurrences(highlighted_new_html, new_elements[n])
                      >= Occurrences(new_html, new_elements[n])

\* an old and a new element without text were passed over, and the element
\* after them was compared and marked
EmptyPassedOver ==
    /\ pc = "done"
    /\ old_html = P(<<" ">>) \o P(A_B)
    /\ new_html = P(<<" ">>) \o P(A_C)
    /\ Len(old_elem_list) = 1
    /\ matched = {<<2, 1>>}
    /\ changes_made = 1
    /\ highlighted_new_html
           = P(<<" ">>) \o P(<<"a", " ">> \o MARK_TEXT_CHANGED \o <<"c">> \o MARK_CLOSE)

\* the words of the new text are words of the old text, in order, with
\* some left out: the opcodes are equal and delete opcodes only
OnlyDeletions(old_text, new_text) ==
    LET opcodes == get_opcodes(Words(old_text), Words(new_text))
    IN /\ \A k \in 1..Len(opcodes) : opcodes[k][1] \in {"equal", "delete"}
       /\ \E k \in 1..Len(opcodes) : opcodes[k][1] = "delete"

\* the last step took an element whose best old element has a ratio
\* between the thresholds and differs from it by deletions only
DeletionStep ==
    /\ Took
    /\ last.idx # 0
    /\ RatLess(<<1, 2>>, last.best_ratio)
    /\ RatLess(last.best_ratio, <<99, 100>>)
    /\ OnlyDeletions(old_elem_list[last.idx][1], last.text)

(***************************************************************************)
(* C22.  Deletions are counted but never marked: when the new element is   *)
(* its old element with words taken out, the step finds it modified, marks *)
(* the old element used and adds one to the count, and the document stays  *)
(* as it was, without a marker in the element.                             *)
(***************************************************************************)
DeletionsCountedNotMarked ==
    DeletionStep
        => /\ last.kind = "modified"
           /\ last.idx \in used_old_indices
           /\ intended[last.unit] = last.elem
           /\ pc # "raised"
           /\ changes_made = last.changes_before + 1
           /\ highlighted_new_html = last.html_before

\* the same, of the elements without a backslash
DeletionsCountedWithoutBackslash ==
    (Took /\ \A i \in 1..Len(last.elem) : last.elem[i] # "\\")
        => DeletionsCountedNotMarked

RECURSIVE WithoutToken(_, _)
\* s from position i on, without the tokens highlight_toc_entries adds
WithoutToken(s, i) ==
    LET t == Find(s, TOC_CLASS, i)
    IN IF t = 0 THEN SubSeq(s, i, Len(s))
       ELSE SubSeq(s, i, t - 1) \o WithoutToken(s, t + Len(TOC_CLASS))

\* the links of the returned document that carry the token
FlaggedLinks == {tag \in Anchors(toc_html) : Find(tag, TOC_CLASS, 1) > 0}

\* nothing but tokens is added, and nothing at all without a changed file
TocFrame ==
    toc_pc = "done"
        => /\ WithoutToken(toc_html, 1) = toc_input
           /\ changed_files = <<>> => toc_html = toc_input

(***************************************************************************)
(* C23.  highlight_toc_entries flags only matching links and changes       *)
(* nothing else: every link that comes back with the token has an href     *)
(* that is one of changed_files, the returned document without the tokens  *)
(* is the document given, and with no changed file the document comes back *)
(* as it was.                                                              *)
(***************************************************************************)
TocFlagsOnlyMatching ==
    /\ toc_pc = "done"
           => \A tag \in FlaggedLinks :
                  /\ HasAttribute(tag, HREF_EQ)
                  /\ \E n \in 1..Len(changed_files) :
                         AttributeValue(tag, HREF_EQ) = changed_files[n]
    /\ TocFrame

(***************************************************************************)
(* C24.  An unchanged match does not consume the old element: a step whose *)
(* best ratio is 0.99 or more leaves used_old_indices, the document and    *)
(* the count as they were; a step changes used_old_indices only by adding  *)
(* the index of its best old element, and only when it finds its element   *)
(* modified; nothing is ever taken out of the set.                         *)
(***************************************************************************)
UnchangedMatchKeepsPool ==
    /\ (Took /\ last.idx # 0 /\ ~RatLess(last.best_ratio, <<99, 100>>))
           => /\ last.kind = "untouched"
              /\ pc # "raised"
              /\ used_old_indices = last.used_before
              /\ matched = {m \in matched : m[1] # last.unit}
              /\ highlighted_new_html = last.html_before
              /\ changes_made = last.changes_before
    /\ Took => last.used_before \subseteq used_old_indices
    /\ (Took /\ used_old_indices # last.used_before)
           => /\ last.kind = "modified"
              /\ last.idx \notin last.used_before
              /\ used_old_indices = last.used_before \cup {last.idx}

\* one old element was the unchanged match of two new elements and then
\* the modified match of a third
UnchangedTwiceThenModified ==
    /\ pc = "done"
    /\ old_html = P(A_B)
    /\ new_html = P(A_B) \o P(A_B) \o P(A_C)
    /\ matched = {<<3, 1>>}
    /\ used_old_indices = {1}
    /\ last.kind = "modified"
    /\ last.used_before = {}
    /\ changes_made = 1

\* the ratio of the text of the old element at i with text
RatioWithOld(i, text) == ratio(old_elem_list[i][1], text)

\* the lowest index among the old elements outside used whose ratio with
\* text is the highest there and above 0; 0 when there is none
Selected(used, text) ==
    LET unused == {i \in 1..Len(old_elem_list) : i \notin used}
        top == {i \in unused :
                   /\ RatLess(<<0, 1>>, RatioWithOld(i, text))
                   /\ \A j \in unused :
                          ~RatLess(RatioWithOld(i, text), RatioWithOld(j, text))}
    IN IF top = {} THEN 0 ELSE Min(top)

RECURSIVE InOrder(_)
\* the run from st on that takes the new elements one after the other in
\* the order of the document, each with the old element Selected gives it
InOrder(st) ==
    IF st.raised \/ st.pos = Len(new_elements) THEN st
    ELSE LET elem == new_elements[st.pos + 1]
             text == extract_text_from_element(elem)
             idx == Selected(st.used, text)
             r == IF idx = 0 THEN <<0, 1>> ELSE RatioWithOld(idx, text)
             modified == /\ text # <<>>
                         /\ idx # 0
                         /\ RatLess(<<1, 2>>, r)
                         /\ RatLess(r, <<99, 100>>)
             added == text # <<>> /\ ~modified /\ (idx = 0 \/ RatLess(r, <<1, 2>>))
             markup == IF modified THEN modified_elem(old_elem_list[idx][2], elem)
                       ELSE IF added THEN added_elem(elem)
                       ELSE <<>>
             sub == re_sub(elem, markup, st.html)
             spliced == markup # <<>> /\ ~sub.err
         IN InOrder([pos |-> st.pos + 1,
                     used |-> IF modified THEN st.used \cup {idx} ELSE st.used,
                     pairs |-> IF modified THEN st.pairs \cup {<<st.pos + 1, idx>>}
                               ELSE st.pairs,
                     html |-> IF spliced THEN sub.out ELSE st.html,
                     changes |-> IF spliced THEN st.changes + 1 ELSE st.changes,
                     raised |-> markup # <<>> /\ sub.err])

\* what the run in document order comes to for the two documents
Outcome ==
    InOrder([pos |-> 0, used |-> {}, pairs |-> {}, html |-> new_html,
             changes |-> 0, raised |-> FALSE])

(***************************************************************************)
(* C25.  Deterministic, order-dependent best-match selection: the steps    *)
(* take the new elements in the order of the document; the old element a   *)
(* step selects is the lowest-index unused old element with the highest    *)
(* ratio, and none when every unused old element has ratio 0, in which     *)
(* case the element is found added; and every run on two documents ends    *)
(* with the pairs, the document and the count of the run in document       *)
(* order with that selection.                                              *)
(***************************************************************************)
BestMatchDeterministic ==
    /\ Took => /\ last.unit = pos
               /\ last.elem = new_elements[pos]
    /\ (Took /\ last.text # <<>>)
           => /\ last.idx = Selected(last.used_before, last.text)
              /\ last.idx # 0
                     => RatEq(last.best_ratio, RatioWithOld(last.idx, last.text))
              /\ last.idx = 0 => last.kind = "added"
    /\ pc = "done"
           => /\ ~Outcome.raised
              /\ matched = Outcome.pairs
              /\ used_old_indices = Outcome.used
              /\ highlighted_new_html = Outcome.html
              /\ changes_made = Outcome.changes
    /\ pc = "raised"
           => /\ Outcome.raised
              /\ Outcome.pos = pos
              /\ highlighted_new_html = Outcome.html
              /\ changes_made = Outcome.changes

\* two old elements have the same ratio with the new element and the first
\* is selected; the element after it has ratio 0 with the old element left
\* and is found added
TieTakesEarliest ==
    /\ pc = "done"
    /\ old_html = P(A_B) \o P(A_B)
    /\ new_html = P(A_C) \o P(<<"q">>)
    /\ matched = {<<1, 1>>}
    /\ last.used_before = {1}
    /\ RatEq(RatioWithOld(2, last.text), <<0, 1>>)
    /\ last.idx = 0
    /\ last.kind = "added"
    /\ changes_made = 2

====
